---- MODULE Spec2Model ----
(***************************************************************************)
(* Credential and session lifecycle of auth-service.                       *)
(*                                                                         *)
(* The store is the users collection (models/user.model.js).  Every        *)
(* request handler of controllers/auth.controller.js is a process that     *)
(* advances from one store or email call (an await) to the next: one       *)
(* action is one store operation together with the synchronous code that   *)
(* follows it up to the next await or the response.  A handler works on    *)
(* its own Mongoose document: a copy of the stored record taken when it    *)
(* was loaded, plus the set of paths assigned a different value since;     *)
(* save() writes exactly those paths.                                      *)
(*                                                                         *)
(* Time is counted in minutes (the code counts milliseconds; every         *)
(* duration in the code is a whole number of minutes).  The audit stamps   *)
(* createdAt and updatedAt are written on every save and read by no        *)
(* handler; they are left out of the record.                               *)
(***************************************************************************)
EXTENDS Integers, Sequences, FiniteSets, TLC

\* ---------------------------------------------------------------- bounds
MaxUsers == 2
MaxTok == 2
MaxTicks == 2
MaxFailed == 6

\* ------------------------------------------------------- program constants
ActivationExpire == 1440
PasswordResetExpire == 60
LockDuration == 15
MaxLoginAttempts == 5
OtpLifetime == 10
OtpMin == 100000
OtpMax == 999999
AccessExpire == 1440
RefreshExpire == 10080

\* -------------------------------------------------------------- input sets
Procs == {"h1", "h2"}
Usernames == {"alice", "bob"}
Emails == {"a@x.com", "b@x.com"}
Passwords == {"secret1", "secret2"}
Roles == {"user", "admin", "superadmin"}
Envs == {"production", "test"}
OtpNumbers == {OtpMin, OtpMax}

VARIABLES nodeEnv, requireOtp, now, ticks, users, nextId, nextTok, proc,
          consumed, rolledBack, wrong, overlapped, hist

vars == <<nodeEnv, requireOtp, now, ticks, users, nextId, nextTok, proc,
          consumed, rolledBack, wrong, overlapped, hist>>

\* ------------------------------------------------------------ value shapes
NoDate == -1

\* A token string: n names the random bytes it was made from (0: a string
\* that was never generated), h counts the digests applied to it.
ClearToken(n) == [h |-> 0, n |-> n]
NoToken == [h |-> -1, n |-> 0]
Sha256(t) == [h |-> t.h + 1, n |-> t.n]

NoPassword == <<>>
Plain(pw) == <<"plain", pw>>
Bcrypt(pw) == <<"bcrypt", pw>>
BcryptCompare(entered, stored) == stored = Bcrypt(entered)

NoOtp == [code |-> "", expiresAt |-> NoDate]
NumToString(n) == IF n = OtpMin THEN "100000" ELSE "999999"
OtpStrings == {NumToString(n) : n \in OtpNumbers}

Ids == 1..MaxUsers

\* UserSchema with its defaults.
NewUser(username, email, password, role, isActive, emailVerified, activationToken, activationExpire) ==
  [username |-> username, email |-> email, password |-> password,
   role |-> role, isActive |-> isActive, emailVerified |-> emailVerified,
   activationToken |-> activationToken, activationExpire |-> activationExpire,
   resetPasswordToken |-> NoToken, resetPasswordExpire |-> NoDate,
   otp |-> NoOtp, otpVerified |-> FALSE, lastLogin |-> NoDate,
   failedLoginAttempts |-> 0, lockedUntil |-> NoDate]

\* ------------------------------------------------------ Mongoose documents
NoDoc == [id |-> 0, mod |-> {}]

\* A query result without the password path (select: false).
Load(id) == [id |-> id, cur |-> [users[id] EXCEPT !.password = NoPassword],
             mod |-> {}]
\* .select("+password")
LoadWithPassword(id) == [id |-> id, cur |-> users[id], mod |-> {}]

\* doc.path = value: the path is marked modified when the value differs.
Assign(doc, path, value) ==
  IF doc.cur[path] = value THEN doc
  ELSE [doc EXCEPT !.cur[path] = value, !.mod = @ \cup {path}]

\* pre("save"): a modified password is replaced by its bcrypt hash.
PreSave(doc) ==
  IF "password" \in doc.mod
  THEN [doc EXCEPT !.cur.password = Bcrypt(doc.cur.password[2])]
  ELSE doc

\* The stored record after doc.save(): the modified paths are written.
Saved(doc) ==
  LET d == PreSave(doc)
  IN  [f \in DOMAIN users[d.id] |->
         IF f \in d.mod THEN d.cur[f] ELSE users[d.id][f]]

SaveDoc(doc) ==
  IF doc.id \in DOMAIN users
  THEN [users EXCEPT ![doc.id] = Saved(doc)]
  ELSE users

AfterSave(doc) == [PreSave(doc) EXCEPT !.mod = {}]

\* ----------------------------------------------------------------- queries
\* findOne returns the first match in insertion order.
FirstOf(S) == CHOOSE i \in S : \A j \in S : i <= j

ByEmail(email) == {i \in DOMAIN users : users[i].email = email}
ByEmailOrUsername(email, username) ==
  {i \in DOMAIN users : users[i].email = email \/ users[i].username = username}
\* Variant: the expiry is not part of the query.
ByActivationTokenAnyTime(hashed, at) ==
  {i \in DOMAIN users : users[i].activationToken = hashed}

ByActivationToken(hashed, at) ==
  {i \in DOMAIN users : /\ users[i].activationToken = hashed
                        /\ users[i].activationExpire # NoDate
                        /\ users[i].activationExpire > at}
ByResetToken(hashed, at) ==
  {i \in DOMAIN users : /\ users[i].resetPasswordToken = hashed
                        /\ users[i].resetPasswordExpire # NoDate
                        /\ users[i].resetPasswordExpire > at}

\* ------------------------------------------------------------ user methods
\* Variant: the comparison is turned around.
isAccountLockedInverted(doc, t) ==
  doc.cur.lockedUntil # NoDate /\ doc.cur.lockedUntil < t

isAccountLocked(doc, t) ==
  doc.cur.lockedUntil # NoDate /\ doc.cur.lockedUntil > t

\* Variant: the lock is set one failure late.
incrementLoginAttemptsLate(doc, t) ==
  LET n == doc.cur.failedLoginAttempts + 1
      d == Assign(doc, "failedLoginAttempts", n)
  IN  IF n > MaxLoginAttempts
      THEN Assign(d, "lockedUntil", t + LockDuration)
      ELSE d

\* Variant: a failure counts twice.
incrementLoginAttemptsTwice(doc, t) ==
  LET n == doc.cur.failedLoginAttempts + 2
      counted == Assign(doc, "failedLoginAttempts", n)
  IN  IF n >= MaxLoginAttempts
      THEN Assign(counted, "lockedUntil", t + LockDuration)
      ELSE counted

\* Variant: a lock that has run out starts the count anew.
incrementLoginAttemptsAnew(doc, t) ==
  LET over == doc.cur.lockedUntil # NoDate /\ doc.cur.lockedUntil <= t
      n == IF over THEN 1 ELSE doc.cur.failedLoginAttempts + 1
      d == Assign(doc, "failedLoginAttempts", n)
  IN  IF n >= MaxLoginAttempts
      THEN Assign(d, "lockedUntil", t + LockDuration)
      ELSE IF over THEN Assign(d, "lockedUntil", NoDate)
      ELSE d

incrementLoginAttempts(doc, t) ==
  LET n == doc.cur.failedLoginAttempts + 1
      d == Assign(doc, "failedLoginAttempts", n)
  IN  IF n >= MaxLoginAttempts
      THEN Assign(d, "lockedUntil", t + LockDuration)
      ELSE d

\* Variant: the counter is left as it is.
resetLoginAttemptsKeepsCount(doc, t) ==
  Assign(Assign(doc, "lockedUntil", NoDate), "lastLogin", t)

resetLoginAttempts(doc, t) ==
  Assign(Assign(Assign(doc, "failedLoginAttempts", 0),
                "lockedUntil", NoDate),
         "lastLogin", t)

generateOTP(doc, n, t) ==
  Assign(doc, "otp", [code |-> NumToString(n), expiresAt |-> t + OtpLifetime])

\* Variant: the entered code is not compared.
verifyOTPAnyCode(doc, enteredOtp, t) ==
  /\ doc.cur.otp # NoOtp
  /\ doc.cur.otp.expiresAt > t

verifyOTP(doc, enteredOtp, t) ==
  /\ doc.cur.otp # NoOtp
  /\ doc.cur.otp.code = enteredOtp
  /\ doc.cur.otp.expiresAt > t

\* Variant: the code stays in the slot.
clearOTPKeepsCode(doc) == Assign(doc, "otpVerified", TRUE)

clearOTP(doc) == Assign(Assign(doc, "otp", NoOtp), "otpVerified", TRUE)

\* ------------------------------------------------------------------ ghosts
\* consumed counts, per one-time secret, the requests that redeemed it;
\* rolledBack holds the reset tokens whose issuance was rolled back;
\* wrong counts, per account, the password comparisons that failed since the
\* last login that passed the password and activation checks.
TokenKey(kind, id, t) ==
  [kind |-> kind, id |-> id, n |-> t.n, code |-> "", at |-> 0]
OtpKey(id, otp) ==
  [kind |-> "otp", id |-> id, n |-> 0, code |-> otp.code,
   at |-> otp.expiresAt]
\* The record that an admin has set the password of the account.
AssistKey(id) == [kind |-> "assist", id |-> id, n |-> 0, code |-> "", at |-> 0]
Redeem(k) ==
  IF "consumed" \notin hist.on THEN consumed
  ELSE IF k \in DOMAIN consumed
  THEN [consumed EXCEPT ![k] = @ + 1]
  ELSE consumed @@ (k :> 1)
Redeemed(k) == IF k \in DOMAIN consumed THEN consumed[k] ELSE 0
\* How often a token was redeemed, whatever the account.
TokenRedeemed(kind, n) ==
  IF \E k \in DOMAIN consumed : k.kind = kind /\ k.n = n
  THEN consumed[CHOOSE k \in DOMAIN consumed : k.kind = kind /\ k.n = n]
  ELSE 0
WasReset(i) == \E k \in DOMAIN consumed : k.kind = "reset" /\ k.id = i

\* hist.sessions holds the token pairs signed so far, each by the account id
\* it carries and its time of issue; hist.otp holds, per account, the last
\* two codes generateOTP stored for it (the older one first).  hist.on names
\* the records that are kept, "consumed", "sessions" and "otp": a
\* specification keeps the ones its properties read.  hist.retired holds the
\* token pairs presented to a refresh or a logout that succeeded.
Session(id, iat) == [id |-> id, iat |-> iat]
Record(minted, retired) ==
  hist' = [hist EXCEPT
             !.sessions = IF "sessions" \in hist.on THEN @ \cup minted ELSE @,
             !.retired = IF "retired" \in hist.on THEN @ \cup retired ELSE @]
Mint(id) == Record({Session(id, now)}, {})
IssueOtp(id, code) ==
  hist' = IF "otp" \in hist.on
          THEN [hist EXCEPT !.otp[id] = <<@[2], code>>]
          ELSE hist

\* --------------------------------------------------------------- responses
NoSession == 0
Resp(status, message) ==
  [status |-> status, message |-> message, session |-> NoSession,
   userId |-> 0, list |-> <<>>]
\* generateToken and generateRefreshToken: an access token in the body and a
\* refresh token in the cookie, both for the account id.
RespSession(message, id) ==
  [status |-> 200, message |-> message, session |-> id, userId |-> id,
   list |-> <<>>]
NoResp == Resp(0, "")

\* The transport of the test environment always resolves.
EmailOutcomes == IF nodeEnv = "test" THEN {TRUE} ELSE BOOLEAN

\* --------------------------------------------------------------- processes
NoArg == [none |-> TRUE]
Idle == [op |-> "none", pc |-> "idle", arg |-> NoArg, doc |-> NoDoc,
         tok |-> 0, sent |-> FALSE, note |-> "", resp |-> NoResp]

Free(p) == proc[p].pc \in {"idle", "done"}

Begin(p, op, pc, arg) ==
  proc' = [proc EXCEPT ![p] = [Idle EXCEPT !.op = op, !.pc = pc,
                                           !.arg = arg]]

\* History: a request was taken up while another one was being handled.
Overlap(p) ==
  overlapped' = (overlapped \/ (proc'[p].pc # "done"
                                 /\ \E q \in Procs \ {p} : ~Free(q)))

Goto(p, pc, doc) ==
  proc' = [proc EXCEPT ![p].pc = pc, ![p].doc = doc]

\* The response ends the handler; its locals are dropped.  What stays on
\* record: the token the request carried or generated, and a note on the
\* branch taken.
Respond(p, r) ==
  proc' = [proc EXCEPT ![p] = [Idle EXCEPT !.op = proc[p].op, !.pc = "done",
                                           !.tok = proc[p].tok,
                                           !.note = proc[p].note,
                                           !.resp = r]]

RespondNote(p, r, note) ==
  proc' = [proc EXCEPT ![p] = [Idle EXCEPT !.op = proc[p].op, !.pc = "done",
                                           !.tok = proc[p].tok,
                                           !.note = note,
                                           !.resp = r]]

\* The response of a handler whose last await was an email: the token handed
\* to the transport and the outcome of the send stay on record.
RespondMailed(p, r, sent) ==
  proc' = [proc EXCEPT ![p] = [Idle EXCEPT !.op = proc[p].op, !.pc = "done",
                                           !.tok = proc[p].tok,
                                           !.note = proc[p].note,
                                           !.sent = sent, !.resp = r]]

\* A request answered before its first await.
Reject(p, op, r) ==
  proc' = [proc EXCEPT ![p] = [Idle EXCEPT !.op = op, !.pc = "done",
                                           !.resp = r]]

At(p, op, pc) == proc[p].op = op /\ proc[p].pc = pc

\* ------------------------------------------------------------------- Init
\* The accounts the test suite seeds with User.create (auth.test.js): an
\* active, verified account.
Alice ==
  NewUser("alice", "a@x.com", Bcrypt("secret1"), "user", TRUE, TRUE,
          NoToken, NoDate)

\* The same account as register leaves it at time 0: inactive, with the
\* digest of activation token 1 and its expiry.
Pending ==
  NewUser("alice", "a@x.com", Bcrypt("secret1"), "user", FALSE, FALSE,
          Sha256(ClearToken(1)), ActivationExpire)

\* An account as the test suite seeds it for each role, after a login at
\* time 0.
Member(username, email, role) ==
  [NewUser(username, email, Bcrypt("secret1"), role, TRUE, TRUE, NoToken,
           NoDate) EXCEPT !.lastLogin = 0]

\* Tokens generated so far for the accounts of a store.
Issued(store) ==
  {store[i].activationToken.n : i \in DOMAIN store}
    \cup {store[i].resetPasswordToken.n : i \in DOMAIN store}

\* Alice after forgot-password at time 0 (reset token 1 emailed).
AliceForgot ==
  [Alice EXCEPT !.resetPasswordToken = Sha256(ClearToken(1)),
                !.resetPasswordExpire = PasswordResetExpire]

\* Alice after the password step of a login at time 0 with REQUIRE_OTP set.
AliceOtp ==
  [Alice EXCEPT !.otp = [code |-> NumToString(OtpMin),
                         expiresAt |-> OtpLifetime],
                !.lastLogin = 0]

\* The history of a seeded store: the token pairs its accounts got when they
\* last logged in, and the code each account has outstanding.
Recorded(on, store) ==
  [on |-> on,
   sessions |->
     IF "sessions" \in on
     THEN {Session(i, store[i].lastLogin) :
             i \in {j \in DOMAIN store : /\ store[j].lastLogin # NoDate
                                          /\ store[j].otp = NoOtp}}
     ELSE {},
   retired |-> {},
   otp |-> [i \in Ids |->
              <<"", IF "otp" \in on /\ i \in DOMAIN store
                    THEN store[i].otp.code ELSE "">>]]

\* The process starts with an environment, a clock and a store; no request
\* is in flight.
InitState(envs, otps, store, h) ==
  /\ nodeEnv \in envs
  /\ requireOtp \in otps
  /\ now = 0
  /\ ticks = 0
  /\ overlapped = FALSE
  /\ users = store
  /\ nextId = Cardinality(DOMAIN store \cup {t.id : t \in h.sessions}) + 1
  /\ nextTok = Cardinality(Issued(store) \ {0}) + 1
  /\ proc = [p \in Procs |-> Idle]
  /\ consumed = <<>>
  /\ rolledBack = {}
  /\ wrong = [i \in Ids |-> 0]
  /\ hist = h
InitWith(envs, otps, store) ==
  InitState(envs, otps, store, Recorded({"consumed"}, store))

\* The instants at which a stored time limit or a signed token runs out.
Deadlines ==
  UNION {{users[i].activationExpire, users[i].resetPasswordExpire,
          users[i].otp.expiresAt, users[i].lockedUntil} : i \in DOMAIN users}
    \cup UNION {{t.iat + AccessExpire, t.iat + RefreshExpire} :
                  t \in hist.sessions}

\* Time passes up to the next such instant or beyond.
Tick ==
  /\ ticks < MaxTicks
  /\ \E d \in Deadlines : d > now /\ now' = d
  /\ ticks' = ticks + 1
  /\ UNCHANGED <<nodeEnv, requireOtp, overlapped, hist, users, nextId,
                 nextTok, proc, consumed, rolledBack, wrong>>

\* A field the body does not carry: "" for a string, {} for a flag.
NoRole == ""

\* --------------------------------------------------------------- register
RegisterStart(p) ==
  /\ Free(p)
  /\ \E username \in Usernames, email \in Emails, password \in Passwords,
        role \in {"user", "superadmin"}, valid \in BOOLEAN :
       IF valid
       THEN Begin(p, "register", "find",
                  [username |-> username, email |-> email,
                   password |-> password, role |-> role])
       ELSE Reject(p, "register", Resp(400, "ValidationError"))
  /\ Overlap(p)
  /\ UNCHANGED <<nodeEnv, requireOtp, hist, now, ticks, users, nextId,
                 nextTok, consumed, rolledBack, wrong>>

\* req.user of a route without a protect step.
NoCaller == [id |-> 0, role |-> NoRole]

\* Variant: the role of the body is stored.
RegisterRoleAsAsked(caller, role) == IF role = NoRole THEN "user" ELSE role

\* The role register stores: the one of the body for a caller of role admin,
\* user for everyone else.
RegisterRole(caller, role) ==
  IF caller # NoCaller /\ caller.role = "admin"
  THEN IF role = NoRole THEN "user" ELSE role
  ELSE "user"

\* findOne({$or: [{email}, {username}]}), then the token and the fields of
\* the account to create.  The route has no protect step, so req.user is
\* undefined.
RegisterFind(p) ==
  /\ At(p, "register", "find")
  /\ LET a == proc[p].arg IN
     IF ByEmailOrUsername(a.email, a.username) # {}
     THEN /\ Respond(p, Resp(400, "UserExists"))
          /\ UNCHANGED nextTok
     ELSE /\ nextTok <= MaxTok
          /\ nextTok' = nextTok + 1
          /\ proc' = [proc EXCEPT
               ![p].pc = "create",
               ![p].tok = nextTok,
               ![p].doc = [id |-> 0,
                           cur |-> NewUser(a.username, a.email,
                                     Plain(a.password),
                                     RegisterRole(NoCaller, a.role),
                                     FALSE, FALSE,
                                     Sha256(ClearToken(nextTok)),
                                     now + ActivationExpire),
                           mod |-> {"password"}]]
  /\ UNCHANGED <<nodeEnv, requireOtp, overlapped, hist, now, ticks, users,
                 nextId, consumed, rolledBack, wrong>>

\* User.create: the unique indexes on username and email reject a duplicate
\* (error code 11000, answered 400 by the error handler).
RegisterCreate(p) ==
  /\ At(p, "register", "create")
  /\ LET d == proc[p].doc IN
     IF ByEmailOrUsername(d.cur.email, d.cur.username) # {}
     THEN /\ Respond(p, Resp(400, "DuplicateKey"))
          /\ UNCHANGED <<users, nextId>>
     ELSE /\ nextId <= MaxUsers
          /\ users' = users @@ (nextId :> PreSave(d).cur)
          /\ nextId' = nextId + 1
          /\ Goto(p, "email", [AfterSave(d) EXCEPT !.id = nextId])
  /\ UNCHANGED <<nodeEnv, requireOtp, overlapped, hist, now, ticks, nextTok,
                 consumed, rolledBack, wrong>>

\* Variant: a failed send removes the account and answers 500.
RegisterEmailRollsBack(p) ==
  /\ At(p, "register", "email")
  /\ \E sent \in EmailOutcomes :
       IF sent
       THEN /\ RespondMailed(p, Resp(201, "RegistrationSuccessful"), sent)
            /\ UNCHANGED users
       ELSE /\ RespondMailed(p, Resp(500, "EmailCouldNotBeSent"), sent)
            /\ users' = [i \in DOMAIN users \ {proc[p].doc.id} |-> users[i]]
  /\ UNCHANGED <<nodeEnv, requireOtp, overlapped, hist, now, ticks, nextId,
                 nextTok, consumed, rolledBack, wrong>>

\* sendActivationEmail: a failure is logged and the answer is still 201.
RegisterEmail(p) ==
  /\ At(p, "register", "email")
  /\ \E sent \in EmailOutcomes :
       RespondMailed(p, Resp(201, "RegistrationSuccessful"), sent)
  /\ UNCHANGED <<nodeEnv, requireOtp, overlapped, hist, now, ticks, users,
                 nextId, nextTok, consumed, rolledBack, wrong>>

\* ------------------------------------------------------------------ login
LoginStart(p) ==
  /\ Free(p)
  /\ \E email \in Emails, password \in Passwords, valid \in BOOLEAN :
       IF valid
       THEN Begin(p, "login", "find", [email |-> email, password |-> password])
       ELSE Reject(p, "login", Resp(400, "ValidationError"))
  /\ Overlap(p)
  /\ UNCHANGED <<nodeEnv, requireOtp, hist, now, ticks, users, nextId,
                 nextTok, consumed, rolledBack, wrong>>

\* Variant: the activation check is left out.
LoginFindSkipsActivation(p) ==
  /\ At(p, "login", "find")
  /\ LET a == proc[p].arg
         found == ByEmail(a.email)
         user == LoadWithPassword(FirstOf(found))
         ok == BcryptCompare(a.password, user.cur.password)
     IN  IF found = {}
         THEN /\ Respond(p, Resp(401, "InvalidCredentials"))
              /\ UNCHANGED wrong
         ELSE IF isAccountLocked(user, now)
         THEN /\ RespondNote(p, [Resp(401, "AccountLocked") EXCEPT
                                   !.userId = user.id],
                             IF ok THEN "lockedCorrectPassword"
                                   ELSE "lockedWrongPassword")
              /\ UNCHANGED wrong
         ELSE IF ~ok
         THEN /\ user.cur.failedLoginAttempts < MaxFailed
              /\ Goto(p, "incSave", incrementLoginAttempts(user, now))
              /\ wrong' = [wrong EXCEPT ![user.id] = @ + 1]
         ELSE /\ proc' = [proc EXCEPT
                   ![p].pc = "resetSave",
                   ![p].note = IF user.cur.lockedUntil # NoDate
                               THEN "afterLock" ELSE "",
                   ![p].doc = resetLoginAttempts(user, now)]
              /\ wrong' = [wrong EXCEPT ![user.id] = 0]
  /\ UNCHANGED <<nodeEnv, requireOtp, overlapped, hist, now, ticks, users,
                 nextId, nextTok, consumed, rolledBack>>

\* Variant: the password is compared before the lock is looked at.
LoginFindComparesFirst(p) ==
  /\ At(p, "login", "find")
  /\ LET a == proc[p].arg
         found == ByEmail(a.email)
         user == LoadWithPassword(FirstOf(found))
         ok == BcryptCompare(a.password, user.cur.password)
     IN  IF found = {}
         THEN /\ Respond(p, Resp(401, "InvalidCredentials"))
              /\ UNCHANGED wrong
         ELSE IF ~ok
         THEN /\ user.cur.failedLoginAttempts < MaxFailed
              /\ Goto(p, "incSave", incrementLoginAttempts(user, now))
              /\ wrong' = [wrong EXCEPT ![user.id] = @ + 1]
         ELSE IF isAccountLocked(user, now)
         THEN /\ RespondNote(p, [Resp(401, "AccountLocked") EXCEPT
                                   !.userId = user.id],
                             "lockedCorrectPassword")
              /\ UNCHANGED wrong
         ELSE IF ~user.cur.isActive /\ nodeEnv # "test"
         THEN /\ RespondNote(p, Resp(403, "AccountNotActive"),
                             "correctPassword")
              /\ UNCHANGED wrong
         ELSE /\ proc' = [proc EXCEPT
                   ![p].pc = "resetSave",
                   ![p].note = IF user.cur.lockedUntil # NoDate
                               THEN "afterLock" ELSE "",
                   ![p].doc = resetLoginAttempts(user, now)]
              /\ wrong' = [wrong EXCEPT ![user.id] = 0]
  /\ UNCHANGED <<nodeEnv, requireOtp, overlapped, hist, now, ticks, users,
                 nextId, nextTok, consumed, rolledBack>>

\* findOne({email}).select("+password") and the checks up to the first save.
LoginFind(p) ==
  /\ At(p, "login", "find")
  /\ LET a == proc[p].arg
         found == ByEmail(a.email)
         user == LoadWithPassword(FirstOf(found))
         ok == BcryptCompare(a.password, user.cur.password)
     IN  IF found = {}
         THEN /\ Respond(p, Resp(401, "InvalidCredentials"))
              /\ UNCHANGED wrong
         ELSE IF isAccountLocked(user, now)
         THEN /\ RespondNote(p, [Resp(401, "AccountLocked") EXCEPT
                                   !.userId = user.id],
                             IF ok THEN "lockedCorrectPassword"
                                   ELSE "lockedWrongPassword")
              /\ UNCHANGED wrong
         ELSE IF ~ok
         THEN /\ user.cur.failedLoginAttempts < MaxFailed
              /\ Goto(p, "incSave", incrementLoginAttempts(user, now))
              /\ wrong' = [wrong EXCEPT ![user.id] = @ + 1]
         ELSE IF ~user.cur.isActive /\ nodeEnv # "test"
         THEN /\ RespondNote(p, Resp(403, "AccountNotActive"),
                             "correctPassword")
              /\ UNCHANGED wrong
         ELSE /\ proc' = [proc EXCEPT
                   ![p].pc = "resetSave",
                   ![p].note = IF user.cur.lockedUntil # NoDate
                               THEN "afterLock" ELSE "",
                   ![p].doc = resetLoginAttempts(user, now)]
              /\ wrong' = [wrong EXCEPT ![user.id] = 0]
  /\ UNCHANGED <<nodeEnv, requireOtp, overlapped, hist, now, ticks, users,
                 nextId, nextTok, consumed, rolledBack>>

\* The save of incrementLoginAttempts, then 401.
LoginIncSave(p) ==
  /\ At(p, "login", "incSave")
  /\ users' = SaveDoc(proc[p].doc)
  /\ Respond(p, Resp(401, "InvalidCredentials"))
  /\ UNCHANGED <<nodeEnv, requireOtp, overlapped, hist, now, ticks, nextId,
                 nextTok, consumed, rolledBack, wrong>>

\* Variant: the OTP branch is left out.
LoginResetSaveSkipsOtp(p) ==
  /\ At(p, "login", "resetSave")
  /\ users' = SaveDoc(proc[p].doc)
  /\ Respond(p, RespSession("LoggedIn", proc[p].doc.id))
  /\ Mint(proc[p].doc.id)
  /\ UNCHANGED <<nodeEnv, requireOtp, overlapped, now, ticks, nextId,
                 nextTok, consumed, rolledBack, wrong>>

\* The save of resetLoginAttempts, then either the OTP branch or the tokens.
LoginResetSave(p) ==
  /\ At(p, "login", "resetSave")
  /\ users' = SaveDoc(proc[p].doc)
  /\ LET user == AfterSave(proc[p].doc) IN
     IF requireOtp /\ nodeEnv # "test"
     THEN /\ \E n \in OtpNumbers :
               Goto(p, "otpSave", generateOTP(user, n, now))
          /\ UNCHANGED hist
     ELSE /\ Respond(p, RespSession("LoggedIn", user.id))
          /\ Mint(user.id)
  /\ UNCHANGED <<nodeEnv, requireOtp, overlapped, now, ticks, nextId,
                 nextTok, consumed, rolledBack, wrong>>

LoginOtpSave(p) ==
  /\ At(p, "login", "otpSave")
  /\ users' = SaveDoc(proc[p].doc)
  /\ Goto(p, "otpEmail", AfterSave(proc[p].doc))
  /\ IssueOtp(proc[p].doc.id, proc[p].doc.cur.otp.code)
  /\ UNCHANGED <<nodeEnv, requireOtp, overlapped, now, ticks, nextId,
                 nextTok, consumed, rolledBack, wrong>>

\* sendOtpEmail: a failure is logged; the answer carries the account id.
LoginOtpEmail(p) ==
  /\ At(p, "login", "otpEmail")
  /\ \E sent \in EmailOutcomes :
       RespondMailed(p, [Resp(200, "OtpSent") EXCEPT
                           !.userId = proc[p].doc.id], sent)
  /\ UNCHANGED <<nodeEnv, requireOtp, overlapped, hist, now, ticks, users,
                 nextId, nextTok, consumed, rolledBack, wrong>>

\* -------------------------------------------------------------- verifyOtp
\* The body carries an account id and a code; either may be missing.
VerifyOtpStart(p) ==
  /\ Free(p)
  /\ \E userId \in {0} \cup Ids, otp \in {""} \cup OtpStrings :
       IF userId = 0 \/ otp = ""
       THEN Reject(p, "verifyOtp", Resp(400, "UserIdAndOtpRequired"))
       ELSE Begin(p, "verifyOtp", "find",
                  [userId |-> userId, otp |-> otp, issued |-> NoOtp])
  /\ Overlap(p)
  /\ UNCHANGED <<nodeEnv, requireOtp, hist, now, ticks, users, nextId,
                 nextTok, consumed, rolledBack, wrong>>

VerifyOtpFind(p) ==
  /\ At(p, "verifyOtp", "find")
  /\ LET a == proc[p].arg IN
     IF a.userId \notin DOMAIN users
     THEN Respond(p, Resp(404, "UserNotFound"))
     ELSE IF ~verifyOTP(Load(a.userId), a.otp, now)
     THEN Respond(p, Resp(401, "InvalidOrExpiredOtp"))
     ELSE proc' = [proc EXCEPT
            ![p].pc = "save",
            ![p].arg = [userId |-> a.userId, otp |-> a.otp,
                        issued |-> users[a.userId].otp],
            ![p].doc = clearOTP(Load(a.userId))]
  /\ UNCHANGED <<nodeEnv, requireOtp, overlapped, hist, now, ticks, users,
                 nextId, nextTok, consumed, rolledBack, wrong>>

VerifyOtpSave(p) ==
  /\ At(p, "verifyOtp", "save")
  /\ users' = SaveDoc(proc[p].doc)
  /\ consumed' = Redeem(OtpKey(proc[p].doc.id, proc[p].arg.issued))
  /\ Respond(p, RespSession("OtpVerified", proc[p].doc.id))
  /\ Mint(proc[p].doc.id)
  /\ UNCHANGED <<nodeEnv, requireOtp, overlapped, now, ticks, nextId,
                 nextTok, rolledBack, wrong>>

\* -------------------------------------------------------- activateAccount
\* Any string can be presented: a generated token or one never generated.
PresentableTokens == {ClearToken(n) : n \in 0..(nextTok - 1)}

\* The query is built, with Date.now(), before the store runs it.
ActivateStart(p) ==
  /\ Free(p)
  /\ \E t \in PresentableTokens :
       proc' = [proc EXCEPT ![p] =
                  [Idle EXCEPT !.op = "activate", !.pc = "find", !.tok = t.n,
                               !.arg = [token |-> t, at |-> now]]]
  /\ Overlap(p)
  /\ UNCHANGED <<nodeEnv, requireOtp, hist, now, ticks, users, nextId,
                 nextTok, consumed, rolledBack, wrong>>

\* Variant: the activation slot is not cleared.
ActivateFindKeepsToken(p) ==
  /\ At(p, "activate", "find")
  /\ LET a == proc[p].arg
         found == ByActivationToken(Sha256(a.token), a.at)
         user == Load(FirstOf(found))
     IN  IF found = {}
         THEN Respond(p, Resp(400, "InvalidOrExpiredToken"))
         ELSE Goto(p, "save",
                Assign(Assign(user, "isActive", TRUE), "emailVerified", TRUE))
  /\ UNCHANGED <<nodeEnv, requireOtp, overlapped, hist, now, ticks, users,
                 nextId, nextTok, consumed, rolledBack, wrong>>

\* findOne by digest and expiry, then the activation on the document.
ActivateFind(p) ==
  /\ At(p, "activate", "find")
  /\ LET a == proc[p].arg
         found == ByActivationToken(Sha256(a.token), a.at)
         user == Load(FirstOf(found))
     IN  IF found = {}
         THEN Respond(p, Resp(400, "InvalidOrExpiredToken"))
         ELSE Goto(p, "save",
                Assign(Assign(Assign(Assign(user, "isActive", TRUE),
                                     "emailVerified", TRUE),
                              "activationToken", NoToken),
                       "activationExpire", NoDate))
  /\ UNCHANGED <<nodeEnv, requireOtp, overlapped, hist, now, ticks, users,
                 nextId, nextTok, consumed, rolledBack, wrong>>

ActivateSave(p) ==
  /\ At(p, "activate", "save")
  /\ users' = SaveDoc(proc[p].doc)
  /\ consumed' = Redeem(TokenKey("activation", proc[p].doc.id,
                                  proc[p].arg.token))
  /\ Respond(p, RespSession("AccountActivated", proc[p].doc.id))
  /\ Mint(proc[p].doc.id)
  /\ UNCHANGED <<nodeEnv, requireOtp, overlapped, now, ticks, nextId,
                 nextTok, rolledBack, wrong>>

\* --------------------------------------------------------- forgotPassword
\* The handler does not look at the validation result.
ForgotStart(p) ==
  /\ Free(p)
  /\ \E email \in Emails : Begin(p, "forgotPassword", "find", [email |-> email])
  /\ Overlap(p)
  /\ UNCHANGED <<nodeEnv, requireOtp, hist, now, ticks, users, nextId,
                 nextTok, consumed, rolledBack, wrong>>

ForgotFind(p) ==
  /\ At(p, "forgotPassword", "find")
  /\ LET found == ByEmail(proc[p].arg.email)
         user == Load(FirstOf(found))
     IN  IF found = {}
         THEN /\ Respond(p, Resp(200, "IfRegisteredYouWillReceiveLink"))
              /\ UNCHANGED nextTok
         ELSE /\ nextTok <= MaxTok
              /\ nextTok' = nextTok + 1
              /\ proc' = [proc EXCEPT
                   ![p].pc = "save",
                   ![p].tok = nextTok,
                   ![p].doc =
                     Assign(Assign(user, "resetPasswordToken",
                                   Sha256(ClearToken(nextTok))),
                            "resetPasswordExpire", now + PasswordResetExpire)]
  /\ UNCHANGED <<nodeEnv, requireOtp, overlapped, hist, now, ticks, users,
                 nextId, consumed, rolledBack, wrong>>

ForgotSave(p) ==
  /\ At(p, "forgotPassword", "save")
  /\ users' = SaveDoc(proc[p].doc)
  /\ Goto(p, "email", AfterSave(proc[p].doc))
  /\ UNCHANGED <<nodeEnv, requireOtp, overlapped, hist, now, ticks, nextId,
                 nextTok, consumed, rolledBack, wrong>>

\* Variant: the failed send does not unset the two fields.
ForgotEmailNoRollback(p) ==
  /\ At(p, "forgotPassword", "email")
  /\ \E sent \in EmailOutcomes :
          IF sent
          THEN RespondMailed(p, Resp(200, "IfRegisteredYouWillReceiveLink"),
                             sent)
          ELSE Goto(p, "rollback", proc[p].doc)
  /\ UNCHANGED <<nodeEnv, requireOtp, overlapped, hist, now, ticks, users,
                 nextId, nextTok, consumed, rolledBack, wrong>>

\* sendPasswordResetEmail: sent, 200; failed, the two fields are unset on the
\* document and saved again.
ForgotEmail(p) ==
  /\ At(p, "forgotPassword", "email")
  /\ \E sent \in EmailOutcomes :
          IF sent
          THEN RespondMailed(p, Resp(200, "IfRegisteredYouWillReceiveLink"),
                             sent)
          ELSE Goto(p, "rollback",
                 Assign(Assign(proc[p].doc, "resetPasswordToken", NoToken),
                        "resetPasswordExpire", NoDate))
  /\ UNCHANGED <<nodeEnv, requireOtp, overlapped, hist, now, ticks, users,
                 nextId, nextTok, consumed, rolledBack, wrong>>

ForgotRollback(p) ==
  /\ At(p, "forgotPassword", "rollback")
  /\ users' = SaveDoc(proc[p].doc)
  /\ rolledBack' = rolledBack \cup {proc[p].tok}
  /\ RespondMailed(p, Resp(500, "EmailCouldNotBeSent"), FALSE)
  /\ UNCHANGED <<nodeEnv, requireOtp, overlapped, hist, now, ticks, nextId,
                 nextTok, consumed, wrong>>

\* ---------------------------------------------------------- resetPassword
ResetStart(p) ==
  /\ Free(p)
  /\ \E t \in PresentableTokens, password \in Passwords, valid \in BOOLEAN :
       IF valid
       THEN proc' = [proc EXCEPT ![p] =
                  [Idle EXCEPT !.op = "resetPassword", !.pc = "find",
                               !.tok = t.n,
                               !.arg = [token |-> t, password |-> password,
                                        at |-> now]]]
       ELSE Reject(p, "resetPassword", Resp(400, "ValidationError"))
  /\ Overlap(p)
  /\ UNCHANGED <<nodeEnv, requireOtp, hist, now, ticks, users, nextId,
                 nextTok, consumed, rolledBack, wrong>>

\* Variant: the reset slot is not cleared.
ResetFindKeepsToken(p) ==
  /\ At(p, "resetPassword", "find")
  /\ LET a == proc[p].arg
         found == ByResetToken(Sha256(a.token), a.at)
         user == Load(FirstOf(found))
         set == Assign(user, "password", Plain(a.password))
     IN  IF found = {}
         THEN Respond(p, Resp(400, "InvalidOrExpiredToken"))
         ELSE IF ~user.cur.isActive
         THEN Goto(p, "save", Assign(Assign(set, "isActive", TRUE),
                                     "emailVerified", TRUE))
         ELSE Goto(p, "save", set)
  /\ UNCHANGED <<nodeEnv, requireOtp, overlapped, hist, now, ticks, users,
                 nextId, nextTok, consumed, rolledBack, wrong>>

\* Variant: the new password lifts the lock.
ResetFindLiftsLock(p) ==
  /\ At(p, "resetPassword", "find")
  /\ LET a == proc[p].arg
         found == ByResetToken(Sha256(a.token), a.at)
         user == Load(FirstOf(found))
         set == Assign(Assign(Assign(user, "password", Plain(a.password)),
                              "resetPasswordToken", NoToken),
                       "resetPasswordExpire", NoDate)
         free == Assign(Assign(set, "failedLoginAttempts", 0),
                        "lockedUntil", NoDate)
     IN  IF found = {}
         THEN Respond(p, Resp(400, "InvalidOrExpiredToken"))
         ELSE IF ~user.cur.isActive
         THEN Goto(p, "save", Assign(Assign(free, "isActive", TRUE),
                                     "emailVerified", TRUE))
         ELSE Goto(p, "save", free)
  /\ UNCHANGED <<nodeEnv, requireOtp, overlapped, hist, now, ticks, users,
                 nextId, nextTok, consumed, rolledBack, wrong>>

\* findOne by digest and expiry, then the new password on the document.
ResetFind(p) ==
  /\ At(p, "resetPassword", "find")
  /\ LET a == proc[p].arg
         found == ByResetToken(Sha256(a.token), a.at)
         user == Load(FirstOf(found))
         set == Assign(Assign(Assign(user, "password", Plain(a.password)),
                              "resetPasswordToken", NoToken),
                       "resetPasswordExpire", NoDate)
     IN  IF found = {}
         THEN Respond(p, Resp(400, "InvalidOrExpiredToken"))
         ELSE IF ~user.cur.isActive
         THEN Goto(p, "save", Assign(Assign(set, "isActive", TRUE),
                                     "emailVerified", TRUE))
         ELSE Goto(p, "save", set)
  /\ UNCHANGED <<nodeEnv, requireOtp, overlapped, hist, now, ticks, users,
                 nextId, nextTok, consumed, rolledBack, wrong>>

ResetSave(p) ==
  /\ At(p, "resetPassword", "save")
  /\ users' = SaveDoc(proc[p].doc)
  /\ consumed' = Redeem(TokenKey("reset", proc[p].doc.id, proc[p].arg.token))
  /\ Goto(p, "notify", AfterSave(proc[p].doc))
  /\ UNCHANGED <<nodeEnv, requireOtp, overlapped, hist, now, ticks, nextId,
                 nextTok, rolledBack, wrong>>

\* The notification email is best effort; the answer is 200 either way.
ResetNotify(p) ==
  /\ At(p, "resetPassword", "notify")
  /\ \E sent \in EmailOutcomes :
       RespondMailed(p, Resp(200, "PasswordResetSuccessful"), sent)
  /\ UNCHANGED <<nodeEnv, requireOtp, overlapped, hist, now, ticks, users,
                 nextId, nextTok, consumed, rolledBack, wrong>>

\* ------------------------------------------------- protect and authorize
AdminOps ==
  {"getUsers", "getUser", "createUser", "updateUser", "deleteUser",
   "resetUserPassword"}
ProtectedOps == AdminOps \cup {"logout"}


\* The search strings of the model; "" is a query with no search.
Searches == {"", "ALI"}

\* The parameters and bodies a request to a protected route can carry.
\* express-validator has looked at the body of createUser and updateUser;
\* resetUserPassword never reads the validation result.
Bodies(op) ==
  CASE op = "createUser" ->
         {[valid |-> FALSE]} \cup
         {[valid |-> TRUE, username |-> u, email |-> e, password |-> "secret1",
           role |-> r, isActive |-> b] :
            u \in Usernames, e \in Emails, r \in Roles \cup {NoRole},
            b \in {{}, {TRUE}, {FALSE}}}
    [] op = "updateUser" ->
         {[valid |-> FALSE]} \cup
         {[valid |-> TRUE, id |-> i, role |-> r, isActive |-> b,
           username |-> "", email |-> ""] :
            i \in Ids, r \in Roles \cup {NoRole},
            b \in {{}, {TRUE}, {FALSE}}}
    [] op = "resetUserPassword" ->
         {[valid |-> TRUE, id |-> i, password |-> pw] :
            i \in Ids, pw \in {"", "secret2"}}
    [] op = "getUsers" ->
         {[valid |-> TRUE, search |-> q, role |-> r, isActive |-> b,
           page |-> n, limit |-> l] :
            q \in Searches, r \in Roles \cup {NoRole},
            b \in {"", "true", "false"}, n \in {1, 2}, l \in {0, 1}}
    [] op \in {"getUser", "deleteUser"} ->
         {[valid |-> TRUE, id |-> i] : i \in Ids}
    [] OTHER -> {[valid |-> TRUE]}

\* protect up to jwt.verify, for one of the requests given as pairs of a
\* route and a body: no token, a token that does not verify and an expired
\* token are answered 401 at once.
ProtectRequest(p, requests) ==
  /\ Free(p)
  /\ \E op \in {r[1] : r \in requests},
        kind \in {"none", "forged", "signed"} :
       IF kind = "none"
       THEN Reject(p, op, Resp(401, "NotAuthorized"))
       ELSE IF kind = "forged"
       THEN Reject(p, op, Resp(401, "InvalidToken"))
       ELSE \E t \in hist.sessions, r \in {x \in requests : x[1] = op} :
              IF t.iat + AccessExpire <= now
              THEN Reject(p, op, Resp(401, "TokenExpired"))
              ELSE Begin(p, op, "protect",
                         [token |-> t, body |-> r[2],
                          user |-> [id |-> 0, role |-> NoRole]])
  /\ Overlap(p)
  /\ UNCHANGED <<nodeEnv, requireOtp, hist, now, ticks, users, nextId,
                 nextTok, consumed, rolledBack, wrong>>

\* The same for every request to one of the routes ops.
ProtectStart(p, ops) ==
  ProtectRequest(p, UNION {{<<op, body>> : body \in Bodies(op)} : op \in ops})

\* Variant: an admin may assign every role.
validateRoleAssignmentAnyRole(adminRole, targetRole) ==
  adminRole \in {"superadmin", "admin"}

validateRoleAssignment(adminRole, targetRole) ==
  IF adminRole = "superadmin" THEN TRUE
  ELSE IF adminRole = "admin" THEN targetRole \in {"user", "admin"}
  ELSE FALSE

\* Variant: every role passes.
authorizeAnyRole(roles, role) == role \in Roles

authorize(roles, role) == role \in roles

\* Variant: the role is the one the account had when the token was signed
\* (every token of the model is signed in the first state, where the
\* accounts with an odd id are superadmins and the others admins).
ProtectFindRoleOfToken(p) ==
  /\ proc[p].op \in ProtectedOps /\ proc[p].pc = "protect"
  /\ LET a == proc[p].arg
         id == a.token.id
         role == IF id % 2 = 1 THEN "superadmin" ELSE "admin"
     IN  IF id \notin DOMAIN users
         THEN Respond(p, Resp(401, "UserNotFoundWithThisId")) /\ UNCHANGED hist
         ELSE IF ~users[id].isActive /\ nodeEnv # "test"
         THEN Respond(p, Resp(403, "AccountNotActive")) /\ UNCHANGED hist
         ELSE IF /\ proc[p].op \in AdminOps
                 /\ ~authorize({"admin", "superadmin"}, role)
         THEN Respond(p, Resp(403, "RoleNotAuthorized")) /\ UNCHANGED hist
         ELSE IF ~a.body.valid
         THEN Respond(p, Resp(400, "ValidationError")) /\ UNCHANGED hist
         ELSE IF proc[p].op = "logout"
         THEN /\ RespondNote(p, [Resp(200, "LoggedOut") EXCEPT !.userId = id],
                             IF a.token \in hist.retired THEN "retired"
                             ELSE "")
              /\ Record({}, {a.token})
         ELSE /\ proc' = [proc EXCEPT
                   ![p].pc = "handler",
                   ![p].arg.user = [id |-> id, role |-> role]]
              /\ UNCHANGED hist
  /\ UNCHANGED <<nodeEnv, requireOtp, overlapped, now, ticks, users, nextId,
                 nextTok, consumed, rolledBack, wrong>>

\* protect from findById on, then what runs before the handler's first
\* await: authorize("admin", "superadmin") on the admin routes and the
\* validation result.  logout has no await and answers here.
ProtectFind(p) ==
  /\ proc[p].op \in ProtectedOps /\ proc[p].pc = "protect"
  /\ LET a == proc[p].arg
         id == a.token.id
     IN  IF id \notin DOMAIN users
         THEN Respond(p, Resp(401, "UserNotFoundWithThisId")) /\ UNCHANGED hist
         ELSE IF ~users[id].isActive /\ nodeEnv # "test"
         THEN Respond(p, Resp(403, "AccountNotActive")) /\ UNCHANGED hist
         ELSE IF /\ proc[p].op \in AdminOps
                 /\ ~authorize({"admin", "superadmin"}, users[id].role)
         THEN Respond(p, Resp(403, "RoleNotAuthorized")) /\ UNCHANGED hist
         ELSE IF ~a.body.valid
         THEN Respond(p, Resp(400, "ValidationError")) /\ UNCHANGED hist
         ELSE IF proc[p].op = "logout"
         THEN /\ RespondNote(p, [Resp(200, "LoggedOut") EXCEPT !.userId = id],
                             IF a.token \in hist.retired THEN "retired"
                             ELSE "")
              /\ Record({}, {a.token})
         ELSE /\ proc' = [proc EXCEPT
                   ![p].pc = "handler",
                   ![p].arg.user = [id |-> id, role |-> users[id].role]]
              /\ UNCHANGED hist
  /\ UNCHANGED <<nodeEnv, requireOtp, overlapped, now, ticks, users, nextId,
                 nextTok, consumed, rolledBack, wrong>>

\* ------------------------------------------------------------ refreshToken
\* verifyRefreshToken up to jwt.verify with the refresh secret.
RefreshStart(p) ==
  /\ Free(p)
  /\ \E kind \in {"none", "forged", "signed"} :
       IF kind = "none"
       THEN Reject(p, "refreshToken", Resp(401, "NoRefreshToken"))
       ELSE IF kind = "forged"
       THEN Reject(p, "refreshToken", Resp(401, "InvalidRefreshToken"))
       ELSE \E t \in hist.sessions :
              IF t.iat + RefreshExpire <= now
              THEN Reject(p, "refreshToken", Resp(401, "InvalidRefreshToken"))
              ELSE Begin(p, "refreshToken", "verify", [token |-> t])
  /\ Overlap(p)
  /\ UNCHANGED <<nodeEnv, requireOtp, hist, now, ticks, users, nextId,
                 nextTok, consumed, rolledBack, wrong>>

\* Variant: an inactive account passes when NODE_ENV is test.
RefreshVerifyTestBypass(p) ==
  /\ At(p, "refreshToken", "verify")
  /\ LET t == proc[p].arg.token IN
     IF t.id \notin DOMAIN users
     THEN Respond(p, Resp(401, "UserNotFoundWithThisId"))
     ELSE IF ~users[t.id].isActive /\ nodeEnv # "test"
     THEN Respond(p, Resp(403, "AccountNotActive"))
     ELSE IF t.iat + RefreshExpire <= now
     THEN Respond(p, Resp(401, "InvalidOrExpiredRefreshToken"))
     ELSE Goto(p, "find", NoDoc)
  /\ UNCHANGED <<nodeEnv, requireOtp, overlapped, hist, now, ticks, users,
                 nextId, nextTok, consumed, rolledBack, wrong>>

\* Variant: a token that a refresh or logout has seen is refused.
RefreshVerifyRevoked(p) ==
  /\ At(p, "refreshToken", "verify")
  /\ LET t == proc[p].arg.token IN
     IF t.id \notin DOMAIN users \/ t \in hist.retired
     THEN Respond(p, Resp(401, "UserNotFoundWithThisId"))
     ELSE IF ~users[t.id].isActive
     THEN Respond(p, Resp(403, "AccountNotActive"))
     ELSE IF t.iat + RefreshExpire <= now
     THEN Respond(p, Resp(401, "InvalidOrExpiredRefreshToken"))
     ELSE Goto(p, "find", NoDoc)
  /\ UNCHANGED <<nodeEnv, requireOtp, overlapped, hist, now, ticks, users,
                 nextId, nextTok, consumed, rolledBack, wrong>>

\* verifyRefreshToken from findById on, then the handler up to its own
\* findById: it verifies the token once more.
RefreshVerify(p) ==
  /\ At(p, "refreshToken", "verify")
  /\ LET t == proc[p].arg.token IN
     IF t.id \notin DOMAIN users
     THEN Respond(p, Resp(401, "UserNotFoundWithThisId"))
     ELSE IF ~users[t.id].isActive
     THEN Respond(p, Resp(403, "AccountNotActive"))
     ELSE IF t.iat + RefreshExpire <= now
     THEN Respond(p, Resp(401, "InvalidOrExpiredRefreshToken"))
     ELSE Goto(p, "find", NoDoc)
  /\ UNCHANGED <<nodeEnv, requireOtp, overlapped, hist, now, ticks, users,
                 nextId, nextTok, consumed, rolledBack, wrong>>

\* The handler from findById on: a new access token and a new refresh token.
RefreshFind(p) ==
  /\ At(p, "refreshToken", "find")
  /\ LET t == proc[p].arg.token IN
     IF t.id \notin DOMAIN users
     THEN Respond(p, Resp(401, "InvalidRefreshToken")) /\ UNCHANGED hist
     ELSE IF ~users[t.id].isActive
     THEN Respond(p, Resp(403, "AccountNotActive")) /\ UNCHANGED hist
     ELSE /\ RespondNote(p, RespSession("TokenRefreshed", t.id),
                         IF t \in hist.retired THEN "retired" ELSE "")
          /\ Record({Session(t.id, now)}, {t})
  /\ UNCHANGED <<nodeEnv, requireOtp, overlapped, now, ticks, users, nextId,
                 nextTok, consumed, rolledBack, wrong>>

\* ------------------------------------------------------- admin controller
\* new RegExp(search, "i").test(text) for the strings of the model.
Contains(text, search) == <<text, search>> \in {<<"alice", "ALI">>}

\* Variant: the role of the query is kept for every caller.
SelectedKeepsRole(q, role) ==
  {i \in DOMAIN users :
     /\ q.search # "" =>
          Contains(users[i].username, q.search)
            \/ Contains(users[i].email, q.search)
     /\ q.role # NoRole => users[i].role = q.role
     /\ q.isActive # "" => users[i].isActive = (q.isActive = "true")}

\* The accounts the filter of getUsers selects for a caller of a role: the
\* exclusion of superadmin replaces the role of the query.
Selected(q, role) ==
  {i \in DOMAIN users :
     /\ q.search # "" =>
          Contains(users[i].username, q.search)
            \/ Contains(users[i].email, q.search)
     /\ IF role # "superadmin" THEN users[i].role # "superadmin"
        ELSE q.role # NoRole => users[i].role = q.role
     /\ q.isActive # "" => users[i].isActive = (q.isActive = "true")}

\* sort({createdAt: -1}): the accounts of S, the one created last first.
Newest(S) ==
  CHOOSE f \in [1..Cardinality(S) -> S] :
    \A i, j \in 1..Cardinality(S) : i < j => f[i] > f[j]

\* countDocuments(filter).
GetUsersCount(p) ==
  /\ At(p, "getUsers", "handler")
  /\ proc' = [proc EXCEPT ![p].pc = "find"]
  /\ UNCHANGED <<nodeEnv, requireOtp, overlapped, hist, now, ticks, users,
                 nextId, nextTok, consumed, rolledBack, wrong>>

\* find(filter).sort().skip((page - 1) * limit).limit(limit), limit 10 when
\* the query has none, and 200 with the page.
GetUsersFind(p) ==
  /\ At(p, "getUsers", "find")
  /\ LET a == proc[p].arg
         limit == IF a.body.limit = 0 THEN 10 ELSE a.body.limit
         startIndex == (a.body.page - 1) * limit
         all == Newest(Selected(a.body, a.user.role))
         last == IF startIndex + limit < Len(all) THEN startIndex + limit
                 ELSE Len(all)
     IN  RespondNote(p, [Resp(200, "Users") EXCEPT
                           !.list = SubSeq(all, startIndex + 1, last)],
                     a.user.role)
  /\ UNCHANGED <<nodeEnv, requireOtp, overlapped, hist, now, ticks, users,
                 nextId, nextTok, consumed, rolledBack, wrong>>

\* Variant: every account may be viewed.
GetUserAnyTarget(p) ==
  /\ At(p, "getUser", "handler")
  /\ LET a == proc[p].arg
         id == a.body.id
     IN  IF id \notin DOMAIN users
         THEN Respond(p, Resp(404, "UserNotFound"))
         ELSE RespondNote(p, [Resp(200, "User") EXCEPT !.userId = id],
                          a.user.role)
  /\ UNCHANGED <<nodeEnv, requireOtp, overlapped, hist, now, ticks, users,
                 nextId, nextTok, consumed, rolledBack, wrong>>

GetUser(p) ==
  /\ At(p, "getUser", "handler")
  /\ LET a == proc[p].arg
         id == a.body.id
     IN  IF id \notin DOMAIN users
         THEN Respond(p, Resp(404, "UserNotFound"))
         ELSE IF users[id].role = "superadmin" /\ a.user.role # "superadmin"
         THEN Respond(p, Resp(403, "NotAuthorizedToViewUser"))
         ELSE RespondNote(p, [Resp(200, "User") EXCEPT !.userId = id],
                          a.user.role)
  /\ UNCHANGED <<nodeEnv, requireOtp, overlapped, hist, now, ticks, users,
                 nextId, nextTok, consumed, rolledBack, wrong>>

\* findOne({$or: [{email}, {username}]}), then the role check and the fields
\* of the account to create.
CreateUserFind(p) ==
  /\ At(p, "createUser", "handler")
  /\ LET a == proc[p].arg
         b == a.body
         active == IF b.isActive = {} THEN TRUE ELSE b.isActive = {TRUE}
     IN  IF ByEmailOrUsername(b.email, b.username) # {}
         THEN Respond(p, Resp(400, "UserExists"))
         ELSE IF ~validateRoleAssignment(a.user.role, b.role)
         THEN RespondNote(p, Resp(403, "NoPermissionToCreateRole"), b.role)
         ELSE Goto(p, "create",
                [id |-> 0,
                 cur |-> NewUser(b.username, b.email, Plain(b.password),
                                 IF b.role = NoRole THEN "user" ELSE b.role,
                                 active, active, NoToken, NoDate),
                 mod |-> {"password"}])
  /\ UNCHANGED <<nodeEnv, requireOtp, overlapped, hist, now, ticks, users,
                 nextId, nextTok, consumed, rolledBack, wrong>>

\* User.create, the welcome email (best effort) and 201.
CreateUserCreate(p) ==
  /\ At(p, "createUser", "create")
  /\ LET d == proc[p].doc IN
     IF ByEmailOrUsername(d.cur.email, d.cur.username) # {}
     THEN /\ Respond(p, Resp(400, "DuplicateKey"))
          /\ UNCHANGED <<users, nextId>>
     ELSE /\ nextId <= MaxUsers
          /\ users' = users @@ (nextId :> PreSave(d).cur)
          /\ nextId' = nextId + 1
          /\ \E sent \in EmailOutcomes :
               RespondNote(p, [Resp(201, "UserCreated") EXCEPT
                                 !.userId = nextId],
                           proc[p].arg.user.role)
  /\ UNCHANGED <<nodeEnv, requireOtp, overlapped, hist, now, ticks, nextTok,
                 consumed, rolledBack, wrong>>

\* Variant: isActive of the body is dropped.
UpdateUserGoOnKeepsActive(p, doc) ==
  LET b == proc[p].arg.body IN
  IF b.email # "" /\ b.email # doc.cur.email
  THEN Goto(p, "email", doc)
  ELSE Goto(p, "save", doc)

\* updateUser past the username: on to the lookup of the email when the body
\* has another one than the account, else isActive as the body has it and
\* the save.  The notice sent when isActive changes is best effort and comes
\* before the save.
UpdateUserGoOn(p, doc) ==
  LET b == proc[p].arg.body IN
  IF b.email # "" /\ b.email # doc.cur.email
  THEN Goto(p, "email", doc)
  ELSE Goto(p, "save",
         IF b.isActive = {} THEN doc
         ELSE Assign(doc, "isActive", b.isActive = {TRUE}))

\* findById, the two permission checks and the role; then the lookup of the
\* username when the body has another one than the account.
UpdateUserFind(p) ==
  /\ At(p, "updateUser", "handler")
  /\ LET a == proc[p].arg
         b == a.body
         user == Load(b.id)
         changed == b.role # NoRole /\ b.role # user.cur.role
         withRole == IF changed THEN Assign(user, "role", b.role) ELSE user
     IN  IF b.id \notin DOMAIN users
         THEN Respond(p, Resp(404, "UserNotFound"))
         ELSE IF user.cur.role = "superadmin" /\ a.user.role # "superadmin"
         THEN Respond(p, Resp(403, "NotAuthorizedToModifyUser"))
         ELSE IF changed /\ ~validateRoleAssignment(a.user.role, b.role)
         THEN RespondNote(p, Resp(403, "NoPermissionToAssignRole"), b.role)
         ELSE IF b.username # "" /\ b.username # user.cur.username
         THEN Goto(p, "username", withRole)
         ELSE UpdateUserGoOn(p, withRole)
  /\ UNCHANGED <<nodeEnv, requireOtp, overlapped, hist, now, ticks, users,
                 nextId, nextTok, consumed, rolledBack, wrong>>

\* Variant: what was assigned so far is saved before the 400.
UpdateUserUsernameSavesFirst(p) ==
  /\ At(p, "updateUser", "username")
  /\ LET b == proc[p].arg.body
         user == proc[p].doc
         found == {i \in DOMAIN users : users[i].username = b.username}
     IN  IF found # {} /\ FirstOf(found) # user.id
         THEN /\ RespondNote(p, Resp(400, "UsernameTaken"),
                             IF user.mod # {} THEN "assigned" ELSE "")
              /\ users' = SaveDoc(user)
         ELSE /\ UpdateUserGoOn(p, Assign(user, "username", b.username))
              /\ UNCHANGED users
  /\ UNCHANGED <<nodeEnv, requireOtp, overlapped, hist, now, ticks,
                 nextId, nextTok, consumed, rolledBack, wrong>>

\* findOne({username}): 400 when another account has the name.  The note
\* says whether the document had assignments by then.
UpdateUserUsername(p) ==
  /\ At(p, "updateUser", "username")
  /\ LET b == proc[p].arg.body
         user == proc[p].doc
         found == {i \in DOMAIN users : users[i].username = b.username}
     IN  IF found # {} /\ FirstOf(found) # user.id
         THEN RespondNote(p, Resp(400, "UsernameTaken"),
                          IF user.mod # {} THEN "assigned" ELSE "")
         ELSE UpdateUserGoOn(p, Assign(user, "username", b.username))
  /\ UNCHANGED <<nodeEnv, requireOtp, overlapped, hist, now, ticks, users,
                 nextId, nextTok, consumed, rolledBack, wrong>>

\* findOne({email}): 400 when another account has the address; a new address
\* is unverified.  Then isActive as the body has it.
UpdateUserEmail(p) ==
  /\ At(p, "updateUser", "email")
  /\ LET b == proc[p].arg.body
         user == proc[p].doc
         found == ByEmail(b.email)
         changed == Assign(Assign(user, "email", b.email),
                           "emailVerified", FALSE)
     IN  IF found # {} /\ FirstOf(found) # user.id
         THEN RespondNote(p, Resp(400, "EmailRegistered"),
                          IF user.mod # {} THEN "assigned" ELSE "")
         ELSE Goto(p, "save",
                IF b.isActive = {} THEN changed
                ELSE Assign(changed, "isActive", b.isActive = {TRUE}))
  /\ UNCHANGED <<nodeEnv, requireOtp, overlapped, hist, now, ticks, users,
                 nextId, nextTok, consumed, rolledBack, wrong>>

\* Variant: the store has no unique index.
UpdateUserSaveNoIndex(p) ==
  /\ At(p, "updateUser", "save")
  /\ users' = SaveDoc(proc[p].doc)
  /\ RespondNote(p, [Resp(200, "UserUpdated") EXCEPT
                       !.userId = proc[p].doc.id],
                 proc[p].arg.user.role)
  /\ UNCHANGED <<nodeEnv, requireOtp, overlapped, hist, now, ticks, nextId,
                 nextTok, consumed, rolledBack, wrong>>

\* save: the unique indexes on username and email reject a value another
\* account has (error code 11000, answered 400 by the error handler).
UpdateUserSave(p) ==
  /\ At(p, "updateUser", "save")
  /\ LET d == proc[p].doc
         taken == \E i \in DOMAIN users \ {d.id} :
                    \/ "username" \in d.mod
                         /\ users[i].username = d.cur.username
                    \/ "email" \in d.mod /\ users[i].email = d.cur.email
     IN  IF taken
         THEN Respond(p, Resp(400, "DuplicateKey")) /\ UNCHANGED users
         ELSE /\ users' = SaveDoc(d)
              /\ RespondNote(p, [Resp(200, "UserUpdated") EXCEPT
                                   !.userId = d.id],
                             proc[p].arg.user.role)
  /\ UNCHANGED <<nodeEnv, requireOtp, overlapped, hist, now, ticks, nextId,
                 nextTok, consumed, rolledBack, wrong>>

\* Variant: the self-deletion check is left out.
DeleteUserFindNoSelfCheck(p) ==
  /\ At(p, "deleteUser", "handler")
  /\ LET a == proc[p].arg
         id == a.body.id
     IN  IF id \notin DOMAIN users
         THEN Respond(p, Resp(404, "UserNotFound"))
         ELSE IF /\ users[id].role \in {"superadmin", "admin"}
                 /\ a.user.role # "superadmin"
         THEN RespondNote(p, Resp(403, "NotAuthorizedToDeleteUser"),
                          IF id = a.user.id THEN "self" ELSE "")
         ELSE Goto(p, "delete", Load(id))
  /\ UNCHANGED <<nodeEnv, requireOtp, overlapped, hist, now, ticks, users,
                 nextId, nextTok, consumed, rolledBack, wrong>>

\* findById, the permission check and then the self-deletion check.
DeleteUserFind(p) ==
  /\ At(p, "deleteUser", "handler")
  /\ LET a == proc[p].arg
         id == a.body.id
     IN  IF id \notin DOMAIN users
         THEN Respond(p, Resp(404, "UserNotFound"))
         ELSE IF /\ users[id].role \in {"superadmin", "admin"}
                 /\ a.user.role # "superadmin"
         THEN RespondNote(p, Resp(403, "NotAuthorizedToDeleteUser"),
                          IF id = a.user.id THEN "self" ELSE "")
         ELSE IF id = a.user.id
         THEN Respond(p, Resp(400, "CannotDeleteOwnAccount"))
         ELSE Goto(p, "delete", Load(id))
  /\ UNCHANGED <<nodeEnv, requireOtp, overlapped, hist, now, ticks, users,
                 nextId, nextTok, consumed, rolledBack, wrong>>

\* Variant: the account is deactivated and stays in the store.
DeleteUserDeleteKeepsRecord(p) ==
  /\ At(p, "deleteUser", "delete")
  /\ users' = [users EXCEPT ![proc[p].doc.id].isActive = FALSE]
  /\ \E sent \in EmailOutcomes :
       RespondNote(p, [Resp(200, "UserDeleted") EXCEPT
                         !.userId = proc[p].doc.id],
                   proc[p].arg.user.role)
  /\ UNCHANGED <<nodeEnv, requireOtp, overlapped, hist, now, ticks, nextId,
                 nextTok, consumed, rolledBack, wrong>>

\* deleteOne, the notice (best effort) and 200.
DeleteUserDelete(p) ==
  /\ At(p, "deleteUser", "delete")
  /\ users' = [i \in DOMAIN users \ {proc[p].doc.id} |-> users[i]]
  /\ \E sent \in EmailOutcomes :
       RespondNote(p, [Resp(200, "UserDeleted") EXCEPT
                         !.userId = proc[p].doc.id],
                   proc[p].arg.user.role)
  /\ UNCHANGED <<nodeEnv, requireOtp, overlapped, hist, now, ticks, nextId,
                 nextTok, consumed, rolledBack, wrong>>

\* Variant: the reset slot is left as it is.
ResetUserPasswordFindKeepsToken(p) ==
  /\ At(p, "resetUserPassword", "handler")
  /\ LET a == proc[p].arg
         id == a.body.id
         tempPassword ==
           IF a.body.password = "" THEN "generated" ELSE a.body.password
     IN  IF id \notin DOMAIN users
         THEN Respond(p, Resp(404, "UserNotFound"))
         ELSE IF users[id].role = "superadmin" /\ a.user.role # "superadmin"
         THEN Respond(p, Resp(403, "NotAuthorizedToResetPassword"))
         ELSE Goto(p, "save",
                Assign(Load(id), "password", Plain(tempPassword)))
  /\ UNCHANGED <<nodeEnv, requireOtp, overlapped, hist, now, ticks, users,
                 nextId, nextTok, consumed, rolledBack, wrong>>

\* findById, the permission check, the temporary password (the one of the
\* body, or randomBytes) and the cleared reset slot.
ResetUserPasswordFind(p) ==
  /\ At(p, "resetUserPassword", "handler")
  /\ LET a == proc[p].arg
         id == a.body.id
         tempPassword ==
           IF a.body.password = "" THEN "generated" ELSE a.body.password
     IN  IF id \notin DOMAIN users
         THEN Respond(p, Resp(404, "UserNotFound"))
         ELSE IF users[id].role = "superadmin" /\ a.user.role # "superadmin"
         THEN Respond(p, Resp(403, "NotAuthorizedToResetPassword"))
         ELSE Goto(p, "save",
                Assign(Assign(Assign(Load(id), "password",
                                     Plain(tempPassword)),
                              "resetPasswordToken", NoToken),
                       "resetPasswordExpire", NoDate))
  /\ UNCHANGED <<nodeEnv, requireOtp, overlapped, hist, now, ticks, users,
                 nextId, nextTok, consumed, rolledBack, wrong>>

\* save, then the email with the temporary password unless NODE_ENV is test;
\* when the send fails the answer carries the password.
ResetUserPasswordSave(p) ==
  /\ At(p, "resetUserPassword", "save")
  /\ users' = SaveDoc(proc[p].doc)
  /\ consumed' = IF Redeemed(AssistKey(proc[p].doc.id)) >= 1 THEN consumed
                 ELSE Redeem(AssistKey(proc[p].doc.id))
  /\ \E sent \in EmailOutcomes :
       RespondNote(p, [Resp(200, IF sent THEN "PasswordReset"
                                 ELSE "PasswordResetEmailFailed") EXCEPT
                         !.userId = proc[p].doc.id],
                   proc[p].arg.user.role)
  /\ UNCHANGED <<nodeEnv, requireOtp, overlapped, hist, now, ticks, nextId,
                 nextTok, rolledBack, wrong>>

\* ----------------------------------------------------------- specifications
Register(p) ==
  \/ RegisterStart(p) \/ RegisterFind(p) \/ RegisterCreate(p)
  \/ RegisterEmail(p)

Activate(p) == ActivateStart(p) \/ ActivateFind(p) \/ ActivateSave(p)

\* login with REQUIRE_OTP unset
LoginDirect(p) ==
  LoginStart(p) \/ LoginFind(p) \/ LoginIncSave(p) \/ LoginResetSave(p)

LoginOtp(p) == LoginOtpSave(p) \/ LoginOtpEmail(p)

VerifyOtp(p) == VerifyOtpStart(p) \/ VerifyOtpFind(p) \/ VerifyOtpSave(p)

Forgot(p) ==
  \/ ForgotStart(p) \/ ForgotFind(p) \/ ForgotSave(p) \/ ForgotEmail(p)
  \/ ForgotRollback(p)

Reset(p) == ResetStart(p) \/ ResetFind(p) \/ ResetSave(p) \/ ResetNotify(p)

\* Registration, activation and login, one request after another.
InitRegister == InitWith(Envs, {FALSE}, (1 :> Alice))
NextRegister ==
  Tick \/ Register("h1") \/ Activate("h1") \/ LoginDirect("h1")
SpecRegister == InitRegister /\ [][NextRegister]_vars

\* Login and lockout, one request after another.
InitLogin == InitWith(Envs, BOOLEAN, (1 :> Alice))
NextLogin == Tick \/ LoginDirect("h1") \/ LoginOtp("h1")
SpecLogin == InitLogin /\ [][NextLogin]_vars

\* Password recovery, one request after another.
InitReset ==
  \E a \in {Alice, Pending} : InitWith(Envs, {FALSE}, (1 :> a))
NextReset == Tick \/ Forgot("h1") \/ Reset("h1") \/ LoginDirect("h1")
SpecReset == InitReset /\ [][NextReset]_vars

\* Two requests in flight at once, redeeming the one-time secret of an
\* account that has one outstanding.
InitRace ==
  \E a \in {Pending, AliceForgot, AliceOtp} :
    InitWith({"production"}, {TRUE}, (1 :> a))
NextRace ==
  \/ Tick
  \/ \E p \in Procs : Activate(p) \/ Reset(p) \/ VerifyOtp(p)
SpecRace == InitRace /\ [][NextRace]_vars

\* The one-time secrets of one account, one request after another, with
\* REQUIRE_OTP set.  A login whose password is wrong is followed up to the
\* comparison; what it saves is the subject of SpecLogin.
InitSecrets ==
  InitState({"production"}, {TRUE}, (1 :> Alice),
            Recorded({"otp"}, (1 :> Alice)))
NextSecrets ==
  \/ Tick \/ Forgot("h1") \/ Reset("h1") \/ VerifyOtp("h1")
  \/ LoginStart("h1") \/ LoginFind("h1") \/ LoginResetSave("h1")
  \/ LoginOtp("h1")
SpecSecrets == InitSecrets /\ [][NextSecrets]_vars

\* Login and verify-otp with REQUIRE_OTP set, one request after another, in
\* each environment.
InitOtp ==
  InitState(Envs, {TRUE}, (1 :> Alice), Recorded({"otp"}, (1 :> Alice)))
NextOtp == Tick \/ LoginDirect("h1") \/ LoginOtp("h1") \/ VerifyOtp("h1")
SpecOtp == InitOtp /\ [][NextOtp]_vars

UpdateUser(p) ==
  \/ UpdateUserFind(p) \/ UpdateUserUsername(p) \/ UpdateUserEmail(p)
  \/ UpdateUserSave(p)

\* The admin routes, one request after another, on a store of one or two
\* accounts of any roles, each holding the tokens of a login at time 0.
Admin(p) ==
  \/ ProtectStart(p, ProtectedOps \ {"getUsers"}) \/ ProtectFind(p)
  \/ GetUser(p)
  \/ CreateUserFind(p) \/ CreateUserCreate(p)
  \/ UpdateUserFind(p) \/ UpdateUserSave(p)
  \/ DeleteUserFind(p) \/ DeleteUserDelete(p)
  \/ ResetUserPasswordFind(p) \/ ResetUserPasswordSave(p)

InitAdmin ==
  \E r1 \in Roles, r2 \in Roles, two \in BOOLEAN :
    LET store == IF two
                 THEN (1 :> Member("alice", "a@x.com", r1))
                        @@ (2 :> Member("bob", "b@x.com", r2))
                 ELSE (1 :> Member("alice", "a@x.com", r1))
    IN  InitState({"production"}, {FALSE}, store,
                  Recorded({"sessions"}, store))
NextAdmin == Admin("h1") \/ Register("h1")
SpecAdmin == InitAdmin /\ [][NextAdmin]_vars

\* The list of accounts, one request after another, on the stores of
\* InitAdmin and what updateUser makes of them.
NextList ==
  \/ ProtectStart("h1", {"getUsers", "updateUser"}) \/ ProtectFind("h1")
  \/ GetUsersCount("h1") \/ GetUsersFind("h1")
  \/ UpdateUserFind("h1") \/ UpdateUserSave("h1")
SpecList == InitAdmin /\ [][NextList]_vars

\* Requests that name an account: createUser for role user, updateUser with
\* a username, an email or both.
CreateRequests ==
  {<<"createUser", b>> :
     b \in {c \in Bodies("createUser") :
              c.valid /\ c.role = "user" /\ c.isActive = {}}}
IdentityRequests ==
  {<<"updateUser", [valid |-> TRUE, id |-> i, role |-> NoRole,
                    isActive |-> {}, username |-> u, email |-> e]>> :
     i \in Ids, u \in Usernames \cup {""}, e \in Emails \cup {""}}

\* register, createUser and updateUser, two requests in flight at once:
\* a register or createUser request next to a createUser or updateUser
\* request.  The store holds a superadmin that logged in at time 0.
InitIdentity ==
  LET store == (1 :> Member("alice", "a@x.com", "superadmin"))
  IN  InitState({"test"}, {FALSE}, store, Recorded({"sessions"}, store))
NextIdentity ==
  \/ Register("h1") \/ ProtectRequest("h2", IdentityRequests)
  \/ UpdateUser("h2")
  \/ \E p \in Procs :
       \/ ProtectRequest(p, CreateRequests) \/ ProtectFind(p)
       \/ CreateUserFind(p) \/ CreateUserCreate(p)
SpecIdentity == InitIdentity /\ [][NextIdentity]_vars

\* Sessions: refresh and logout, one request after another.  alice and bob
\* logged in at time 0; since then bob was deleted, and alice may have been
\* deactivated.
Refresh(p) == RefreshStart(p) \/ RefreshVerify(p) \/ RefreshFind(p)

InitSession ==
  \E active \in BOOLEAN :
    LET alice == [Member("alice", "a@x.com", "user") EXCEPT
                    !.isActive = active]
        bob == Member("bob", "b@x.com", "user")
    IN  InitState(Envs, {FALSE}, (1 :> alice),
                  Recorded({"sessions", "retired"},
                           (1 :> alice) @@ (2 :> bob)))
NextSession ==
  Tick \/ Refresh("h1") \/ ProtectStart("h1", {"logout"}) \/ ProtectFind("h1")
SpecSession == InitSession /\ [][NextSession]_vars

\* Deactivation and reactivation by an admin, with login, logout and refresh,
\* one request after another.  alice, an admin, and bob, a user, logged in
\* at time 0.
ActiveRequests ==
  {<<"logout", [valid |-> TRUE]>>}
  \cup {<<"updateUser", [valid |-> TRUE, id |-> i, role |-> NoRole,
                         isActive |-> b, username |-> "", email |-> ""]>> :
          i \in Ids, b \in {{TRUE}, {FALSE}}}
InitActive ==
  LET store == (1 :> Member("alice", "a@x.com", "admin"))
                 @@ (2 :> Member("bob", "b@x.com", "user"))
  IN  InitState(Envs, {FALSE}, store, Recorded({"sessions"}, store))
NextActive ==
  \/ ProtectRequest("h1", ActiveRequests) \/ ProtectFind("h1")
  \/ UpdateUserFind("h1") \/ UpdateUserSave("h1")
  \/ LoginDirect("h1") \/ Refresh("h1")
SpecActive == InitActive /\ [][NextActive]_vars

\* The password reset by an admin, with login and reset-password, one request
\* after another.  alice is an admin; bob, a user, has reset token 1
\* outstanding from a forgot-password request at time 0.  No time passes, so
\* that an account that gets locked stays locked.
InitAssist ==
  LET bob == [Member("bob", "b@x.com", "user") EXCEPT
                !.resetPasswordToken = Sha256(ClearToken(1)),
                !.resetPasswordExpire = PasswordResetExpire]
      store == (1 :> Member("alice", "a@x.com", "admin")) @@ (2 :> bob)
  IN  InitState({"production"}, {FALSE}, store,
                Recorded({"consumed", "sessions"}, store))
NextAssist ==
  \/ ProtectStart("h1", {"resetUserPassword"}) \/ ProtectFind("h1")
  \/ ResetUserPasswordFind("h1") \/ ResetUserPasswordSave("h1")
  \/ LoginDirect("h1") \/ Reset("h1")
SpecAssist == InitAssist /\ [][NextAssist]_vars

\* Password guessing: up to two login requests in flight at once, none of
\* which has the password of the account.
InitGuess ==
  InitWith({"production"}, {FALSE},
           (1 :> [Alice EXCEPT !.password = Bcrypt("unguessed")]))
NextGuess ==
  Tick \/ \E p \in Procs : LoginStart(p) \/ LoginFind(p) \/ LoginIncSave(p)
SpecGuess == InitGuess /\ [][NextGuess]_vars

\* Deletion by an admin, with the requests that name an account, one after
\* another.  alice is an admin; bob, a user, either registered at time 0
\* and holds activation token 1, or logged in at time 0 and holds reset
\* token 1.
InitDeleted ==
  \E pending \in BOOLEAN :
    LET held == [Member("bob", "b@x.com", "user") EXCEPT
                   !.resetPasswordToken = Sha256(ClearToken(1)),
                   !.resetPasswordExpire = PasswordResetExpire]
        bob == IF pending
               THEN [Pending EXCEPT !.username = "bob", !.email = "b@x.com"]
               ELSE held
        store == (1 :> Member("alice", "a@x.com", "admin")) @@ (2 :> bob)
    IN  InitState(Envs, {FALSE}, store, Recorded({"sessions"}, store))
NextDeleted ==
  \/ ProtectStart("h1", {"deleteUser", "logout"}) \/ ProtectFind("h1")
  \/ DeleteUserFind("h1") \/ DeleteUserDelete("h1")
  \/ LoginDirect("h1") \/ Refresh("h1")
  \/ VerifyOtpStart("h1") \/ VerifyOtpFind("h1")
  \/ Activate("h1") \/ Reset("h1")
SpecDeleted == InitDeleted /\ [][NextDeleted]_vars

\* Login with REQUIRE_OTP set and verify-otp for bob, a user, next to an
\* admin, alice, who deactivates and reactivates him; one request after
\* another, no time passes.
UsableRequests ==
  {<<"updateUser", [valid |-> TRUE, id |-> 2, role |-> NoRole,
                    isActive |-> b, username |-> "", email |-> ""]>> :
     b \in {{TRUE}, {FALSE}}}
InitUsable ==
  LET store == (1 :> Member("alice", "a@x.com", "admin"))
                 @@ (2 :> [Alice EXCEPT !.username = "bob",
                                        !.email = "b@x.com"])
  IN  InitState({"production"}, {TRUE}, store, Recorded({"sessions"}, store))
NextUsable ==
  \/ ProtectRequest("h1", UsableRequests) \/ ProtectFind("h1")
  \/ UpdateUserFind("h1") \/ UpdateUserSave("h1")
  \/ LoginDirect("h1") \/ LoginOtp("h1") \/ VerifyOtp("h1")
SpecUsable == InitUsable /\ [][NextUsable]_vars

\* Deactivation by an admin next to the routes that need no token; one
\* request after another, no time passes.  alice is an admin; bob, a user,
\* is active at the start, so that he is inactive only after alice has
\* deactivated him.
InitSticky ==
  LET store == (1 :> Member("alice", "a@x.com", "admin"))
                 @@ (2 :> Member("bob", "b@x.com", "user"))
  IN  InitState({"production"}, {FALSE}, store, Recorded({"sessions"}, store))
NextSticky ==
  \/ ProtectRequest("h1", UsableRequests) \/ ProtectFind("h1")
  \/ UpdateUserFind("h1") \/ UpdateUserSave("h1")
  \/ LoginDirect("h1") \/ Forgot("h1") \/ Reset("h1")
SpecSticky == InitSticky /\ [][NextSticky]_vars

\* Role changes next to the other admin routes, one request after another,
\* in each environment.  alice, a superadmin, and bob, an admin, logged in at
\* time 0 and no token is signed later; the requests that change an account
\* are about bob, so that alice stays a superadmin and bob has a role other
\* than admin only after a change.
RoleRequests ==
  {<<"getUser", b>> : b \in Bodies("getUser")}
  \cup {<<"updateUser", [valid |-> v, id |-> 2, role |-> r, isActive |-> b,
                         username |-> "", email |-> ""]>> :
          v \in BOOLEAN, r \in {"user", "admin"},
          b \in {{}, {TRUE}, {FALSE}}}
InitRoles ==
  LET store == (1 :> Member("alice", "a@x.com", "superadmin"))
                 @@ (2 :> Member("bob", "b@x.com", "admin"))
  IN  InitState(Envs, {FALSE}, store, Recorded({"sessions"}, store))
NextRoles ==
  \/ ProtectRequest("h1", RoleRequests) \/ ProtectFind("h1")
  \/ GetUser("h1") \/ UpdateUserFind("h1") \/ UpdateUserSave("h1")
SpecRoles == InitRoles /\ [][NextRoles]_vars

\* updateUser with every combination of fields, one request after another,
\* on the stores of InitAdmin.
UpdateRequests ==
  {<<"updateUser", [valid |-> v, id |-> i, role |-> r, isActive |-> b,
                    username |-> u, email |-> e]>> :
     v \in BOOLEAN, i \in Ids, r \in Roles \cup {NoRole},
     b \in {{}, {FALSE}}, u \in Usernames \cup {""}, e \in Emails \cup {""}}
NextUpdate ==
  ProtectRequest("h1", UpdateRequests) \/ ProtectFind("h1") \/ UpdateUser("h1")
SpecUpdate == InitAdmin /\ [][NextUpdate]_vars

\* Two forgot-password requests in flight at once, outside the test
\* environment, so that a send can fail; no time passes.
InitForgotRace == InitWith({"production"}, {FALSE}, (1 :> Alice))
NextForgotRace == \E p \in Procs : Forgot(p)
SpecForgotRace == InitForgotRace /\ [][NextForgotRace]_vars

\* Two login requests in flight at once.
InitLoginRace == InitWith({"production"}, {FALSE}, (1 :> Alice))
NextLoginRace == Tick \/ \E p \in Procs : LoginDirect(p)
SpecLoginRace == InitLoginRace /\ [][NextLoginRace]_vars

\* -------------------------------------------------------------- properties
\* p takes a step of its handler.
Steps(p) == proc'[p] # proc[p]
Answers(p, op) == proc[p].op = op /\ proc[p].pc # "done" /\ proc'[p].pc = "done"
\* The account a login request is about.
LoginTarget(p) ==
  IF proc[p].pc = "find" THEN ByEmail(proc[p].arg.email) ELSE {proc[p].doc.id}
\* Created by register and not yet activated.
PendingAccount(i) ==
  i \in DOMAIN users /\ ~users[i].isActive /\ users[i].activationToken # NoToken
Locked(i) == users[i].lockedUntil # NoDate /\ users[i].lockedUntil > now

\* C1: a register request for an unused username and email prepares an
\* inactive, unverified account of role user that carries the digest of the
\* token (not the token) and an expiry 24 h ahead; create adds exactly that
\* account and nothing else; the answer is 201 whether the activation email
\* was sent or not, and the account is still there as created.
C1_RegisterCreatesPending ==
  [][\A p \in Procs :
      /\ (At(p, "register", "find") /\ proc'[p].pc = "create") =>
           LET d == proc'[p].doc.cur
               t == ClearToken(proc'[p].tok)
           IN  /\ ~d.isActive /\ ~d.emailVerified /\ d.role = "user"
               /\ d.activationToken = Sha256(t)
               /\ d.activationToken # t
               /\ d.activationExpire = now + ActivationExpire
      /\ (At(p, "register", "create") /\ proc'[p].pc = "email") =>
           LET id == proc'[p].doc.id IN
               /\ id \notin DOMAIN users
               /\ DOMAIN users' = DOMAIN users \cup {id}
               /\ \A i \in DOMAIN users : users'[i] = users[i]
               /\ users'[id] = [proc[p].doc.cur EXCEPT
                                  !.password = Bcrypt(proc[p].arg.password)]
      /\ (At(p, "register", "email") /\ Steps(p)) =>
           LET id == proc[p].doc.id
               t == ClearToken(proc'[p].tok)
           IN  /\ proc'[p].resp = Resp(201, "RegistrationSuccessful")
               /\ users' = users
               /\ id \in DOMAIN users'
               /\ ~users'[id].isActive /\ ~users'[id].emailVerified
               /\ users'[id].role = "user"
               /\ users'[id].activationToken = Sha256(t)
               /\ users'[id].activationToken # t
               /\ users'[id].activationExpire = proc[p].doc.cur.activationExpire
               /\ ByEmailOrUsername(users'[id].email, users'[id].username)
                    = {id}]_vars

\* A registration answered 201 although the email could not be sent.
C1_Witness ==
  \E p \in Procs :
    /\ proc[p].op = "register" /\ proc[p].pc = "done"
    /\ proc[p].resp.status = 201 /\ ~proc[p].sent
    /\ \E i \in DOMAIN users :
         /\ users[i].activationToken = Sha256(ClearToken(proc[p].tok))
         /\ ~users[i].isActive

C3_ActivationOnce ==
  [][\A p \in Procs :
      /\ (At(p, "activate", "save") /\ Steps(p)) =>
           LET id == proc[p].doc.id IN
               /\ users'[id].isActive /\ users'[id].emailVerified
               /\ users'[id].activationToken = NoToken
               /\ users'[id].activationExpire = NoDate
               /\ proc'[p].resp = RespSession("AccountActivated", id)
      /\ (/\ At(p, "activate", "find") /\ Steps(p)
          /\ TokenRedeemed("activation", proc[p].arg.token.n) >= 1) =>
               /\ proc'[p].pc = "done"
               /\ proc'[p].resp = Resp(400, "InvalidOrExpiredToken")
               /\ users' = users]_vars

\* The replay of a redeemed activation token was refused.
C3_Witness ==
  \E p \in Procs :
    /\ proc[p].op = "activate" /\ proc[p].pc = "done"
    /\ proc[p].resp.status = 400
    /\ TokenRedeemed("activation", proc[p].tok) = 1

\* C4 as stated: whatever the interleaving of the requests that present it,
\* a one-time secret (activation token, reset token, OTP) is redeemed by at
\* most one of them.
C4_SecretRedeemedAtMostOnce ==
  \A k \in DOMAIN consumed : consumed[k] <= 1

\* C5: the wrong-password attempt that is the fifth in a row since the last
\* success finds the counter at 4 and puts a lock 15 min ahead on the
\* document, and its save stores counter 5 and that lock; while the lock is
\* in force a login is answered AccountLocked whatever the password and
\* changes nothing; once the lock has run out a right-password login on the
\* active account goes on to resetLoginAttempts, whose save stores counter 0.
C5_Lockout ==
  [][\A p \in Procs :
      /\ (/\ At(p, "login", "find") /\ proc'[p].pc = "incSave"
          /\ wrong'[proc'[p].doc.id] = MaxLoginAttempts) =>
             /\ proc'[p].doc.cur.failedLoginAttempts = MaxLoginAttempts
             /\ proc'[p].doc.cur.lockedUntil = now + LockDuration
      /\ (/\ At(p, "login", "incSave") /\ Steps(p)
          /\ wrong[proc[p].doc.id] = MaxLoginAttempts) =>
             LET id == proc[p].doc.id IN
               /\ users'[id].failedLoginAttempts = MaxLoginAttempts
               /\ users'[id].lockedUntil = proc[p].doc.cur.lockedUntil
               /\ users'[id].lockedUntil # NoDate
      /\ (/\ At(p, "login", "find") /\ Steps(p)
          /\ \E i \in LoginTarget(p) : Locked(i)) =>
             /\ proc'[p].pc = "done"
             /\ proc'[p].resp.message = "AccountLocked"
             /\ proc'[p].resp.session = NoSession
             /\ users' = users
      /\ (/\ At(p, "login", "find") /\ Steps(p)
          /\ \E i \in LoginTarget(p) :
               /\ users[i].lockedUntil # NoDate /\ ~Locked(i)
               /\ users[i].isActive
               /\ BcryptCompare(proc[p].arg.password, users[i].password)) =>
             /\ proc'[p].pc = "resetSave"
             /\ proc'[p].note = "afterLock"
      /\ (At(p, "login", "resetSave") /\ Steps(p)) =>
             LET id == proc[p].doc.id IN
               /\ users'[id].failedLoginAttempts = 0
               /\ \/ proc'[p].resp = RespSession("LoggedIn", id)
                  \/ requireOtp /\ proc'[p].pc = "otpSave"]_vars

\* A login that got through after a lock had run out; the counter is 0.
C5_Witness ==
  \E p \in Procs :
    /\ proc[p].op = "login" /\ proc[p].pc = "done"
    /\ proc[p].resp.status = 200
    /\ proc[p].note = "afterLock"
    /\ users[1].failedLoginAttempts = 0

\* In the state a step leads to, a counter of 5 or more comes with a lock.
CounterImpliesLock ==
  \A i \in DOMAIN users' :
    users'[i].failedLoginAttempts >= MaxLoginAttempts =>
      users'[i].lockedUntil # NoDate

\* The failure that brings the counter to 5 or more puts a lock 15 min after
\* it on the document, and its save stores that lock.
FailureSetsLock ==
  \A p \in Procs :
    /\ (/\ At(p, "login", "find") /\ proc'[p].pc = "incSave"
        /\ proc'[p].doc.cur.failedLoginAttempts >= MaxLoginAttempts) =>
           proc'[p].doc.cur.lockedUntil = now + LockDuration
    /\ (/\ At(p, "login", "incSave") /\ Steps(p)
        /\ proc[p].doc.cur.failedLoginAttempts >= MaxLoginAttempts) =>
           users'[proc[p].doc.id].lockedUntil = proc[p].doc.cur.lockedUntil

C7_SuccessResetsCounter ==
  [][\A p \in Procs :
      /\ (At(p, "login", "find") /\ proc'[p].pc = "resetSave") =>
             /\ proc'[p].doc.cur.failedLoginAttempts = 0
             /\ proc'[p].doc.cur.lockedUntil = NoDate
             /\ proc'[p].doc.cur.lastLogin = now
      /\ (At(p, "login", "resetSave") /\ Steps(p)) =>
             LET id == proc[p].doc.id IN
               /\ users'[id].failedLoginAttempts = 0
               /\ users'[id].lockedUntil = NoDate
               /\ users'[id].lastLogin = proc[p].doc.cur.lastLogin
      /\ \A i \in DOMAIN users :
           (users'[i].lockedUntil # users[i].lockedUntil
              /\ users'[i].lockedUntil # NoDate) =>
             wrong[i] >= MaxLoginAttempts]_vars

\* A session issued at a later time:
\* the counter is back at 0 and lastLogin is the time of this login.
C7_Witness ==
  \E p \in Procs :
    /\ proc[p].op = "login" /\ proc[p].pc = "done"
    /\ proc[p].resp.session = 1
    /\ now > 0 /\ users[1].lastLogin = now
    /\ users[1].failedLoginAttempts = 0 /\ users[1].lockedUntil = NoDate
    /\ wrong[1] = 0

\* What the save of a reset does, and what a replayed token gets: the stored
\* password is the hash of the new one, the reset slot is empty, the account
\* is active, and verified if it was inactive; a request that presents a
\* token already redeemed is answered InvalidOrExpiredToken and changes
\* nothing.
ResetTakesEffect ==
  \A p \in Procs :
    /\ (At(p, "resetPassword", "save") /\ Steps(p)) =>
         LET id == proc[p].doc.id IN
           /\ users'[id].password = Bcrypt(proc[p].arg.password)
           /\ users'[id].resetPasswordToken = NoToken
           /\ users'[id].resetPasswordExpire = NoDate
           /\ users'[id].isActive
           /\ ~users[id].isActive => users'[id].emailVerified
           /\ proc'[p].pc = "notify"
    /\ (At(p, "resetPassword", "notify") /\ Steps(p)) =>
         /\ proc'[p].resp.status = 200
         /\ users' = users
    /\ (/\ At(p, "resetPassword", "find") /\ Steps(p)
        /\ TokenRedeemed("reset", proc[p].tok) >= 1) =>
         /\ proc'[p].resp = Resp(400, "InvalidOrExpiredToken")
         /\ users' = users

\* A login, on an account whose password was reset, that is past the lock
\* check when locked says so: with the stored (new) password it passes the
\* password step; with any other password it is on its way to
\* InvalidCredentials, which the next step answers without a session.
LoginAfterReset(unlocked) ==
  \A p \in Procs :
    /\ (/\ At(p, "login", "find") /\ Steps(p)
        /\ \E i \in LoginTarget(p) :
             /\ WasReset(i) /\ (unlocked => ~Locked(i))
             /\ BcryptCompare(proc[p].arg.password, users[i].password)) =>
         proc'[p].pc = "resetSave"
    /\ (/\ At(p, "login", "find") /\ Steps(p)
        /\ \E i \in LoginTarget(p) :
             /\ WasReset(i) /\ (unlocked => ~Locked(i))
             /\ ~BcryptCompare(proc[p].arg.password, users[i].password)) =>
         proc'[p].pc = "incSave"
    /\ (At(p, "login", "incSave") /\ Steps(p)) =>
         proc'[p].resp = Resp(401, "InvalidCredentials")
    /\ (/\ At(p, "login", "resetSave") /\ Steps(p)
        /\ WasReset(proc[p].doc.id)) =>
         proc'[p].resp = RespSession("LoggedIn", proc[p].doc.id)

\* C8 as stated: after a successful reset the slot is cleared and a replay of
\* the token fails InvalidOrExpiredToken, the account is active and verified,
\* a login with the new password succeeds and a login with another password
\* fails InvalidCredentials.
C8_ResetThenLogin ==
  [][ResetTakesEffect /\ LoginAfterReset(FALSE)]_vars

\* C8 amended: the same, the two statements about login holding for logins
\* made while the account is not locked.
C8_ResetThenLoginUnlessLocked ==
  [][ResetTakesEffect /\ LoginAfterReset(TRUE)]_vars

\* The account that was pending has been reset to the second password and a
\* login with it got a session.
C8_Witness ==
  \E p \in Procs :
    /\ proc[p].op = "login" /\ proc[p].pc = "done"
    /\ proc[p].resp.session = 1
    /\ WasReset(1)
    /\ users[1].password = Bcrypt("secret2")
    /\ users[1].activationToken # NoToken
    /\ users[1].isActive /\ users[1].emailVerified
    /\ users[1].resetPasswordToken = NoToken

\* C9 as stated: a forgot-password request for an unregistered email is
\* always answered 200 with the one neutral message, so two runs that differ
\* only in whether the email is registered and in what the email transport
\* does get the same answer exactly when every forgot-password request is
\* answered that way.
C9_ForgotAnswerUniform ==
  \A p \in Procs :
    (proc[p].op = "forgotPassword" /\ proc[p].pc = "done") =>
      proc[p].resp = Resp(200, "IfRegisteredYouWillReceiveLink")

\* C10: for an existing account forgot-password puts the SHA-256 digest of a
\* fresh token and an expiry 1 h ahead on the document and saves them; when
\* the email is sent the answer is 200 and the store keeps that digest and
\* expiry; when it is not, the two fields are saved empty and the answer is
\* 500; a reset request presenting a token that was rolled back is answered
\* InvalidOrExpiredToken and changes nothing, and no such token is ever
\* redeemed.
C10_ForgotRollsBack ==
  [][\A p \in Procs :
      /\ (At(p, "forgotPassword", "find") /\ proc'[p].pc = "save") =>
           /\ proc'[p].tok = nextTok
           /\ proc'[p].doc.cur.resetPasswordToken = Sha256(ClearToken(nextTok))
           /\ proc'[p].doc.cur.resetPasswordToken # ClearToken(nextTok)
           /\ proc'[p].doc.cur.resetPasswordExpire = now + PasswordResetExpire
      /\ (At(p, "forgotPassword", "save") /\ Steps(p)) =>
           LET id == proc[p].doc.id IN
             /\ users'[id].resetPasswordToken = proc[p].doc.cur.resetPasswordToken
             /\ users'[id].resetPasswordExpire = proc[p].doc.cur.resetPasswordExpire
      /\ (/\ At(p, "forgotPassword", "email") /\ Steps(p)
          /\ proc'[p].pc = "done") =>
           LET id == proc[p].doc.id IN
             /\ proc'[p].resp.status = 200 /\ proc'[p].sent
             /\ users' = users
             /\ users[id].resetPasswordToken = Sha256(ClearToken(proc[p].tok))
             /\ users[id].resetPasswordExpire = proc[p].doc.cur.resetPasswordExpire
      /\ (/\ At(p, "forgotPassword", "email") /\ Steps(p)
          /\ proc'[p].pc # "done") =>
           proc'[p].pc = "rollback"
      /\ (At(p, "forgotPassword", "rollback") /\ Steps(p)) =>
           LET id == proc[p].doc.id IN
             /\ proc'[p].resp.status = 500
             /\ users'[id].resetPasswordToken = NoToken
             /\ users'[id].resetPasswordExpire = NoDate
             /\ proc[p].tok \in rolledBack'
      /\ (/\ At(p, "resetPassword", "find") /\ Steps(p)
          /\ proc[p].tok \in rolledBack) =>
           /\ proc'[p].resp = Resp(400, "InvalidOrExpiredToken")
           /\ users' = users
      /\ \A n \in rolledBack' : TokenRedeemed("reset", n)' = 0]_vars

\* A reset request that presented the token of a forgot-password request
\* whose email failed, and was refused; the slot is empty.
C10_Witness ==
  \E p \in Procs :
    /\ proc[p].op = "resetPassword" /\ proc[p].pc = "done"
    /\ proc[p].tok \in rolledBack
    /\ proc[p].resp = Resp(400, "InvalidOrExpiredToken")
    /\ users[1].resetPasswordToken = NoToken
    /\ users[1].resetPasswordExpire = NoDate

\* The step ends the request with an error answer.
Refused(p, status, message) ==
  proc'[p].pc = "done" /\ proc'[p].resp = Resp(status, message)

\* C11: each one-time-secret slot holds at most one redeemable value per
\* account.  A reset request is accepted only with the reset token generated
\* last, and an earlier one is answered InvalidOrExpiredToken; a verify-otp
\* request is accepted only with the code stored last, and the code stored
\* before it, when different, is answered InvalidOrExpiredOtp.
C11_OnlyLatestSecret ==
  [][\A p \in Procs :
       /\ (At(p, "resetPassword", "find") /\ Steps(p)) =>
            /\ proc'[p].pc = "save" => proc[p].tok = nextTok - 1
            /\ proc[p].tok < nextTok - 1 =>
                 /\ Refused(p, 400, "InvalidOrExpiredToken")
                 /\ users' = users
       /\ (At(p, "verifyOtp", "find") /\ Steps(p)) =>
            LET h == hist.otp[proc[p].arg.userId] IN
            /\ proc'[p].pc = "save" => proc[p].arg.otp = h[2]
            /\ (proc[p].arg.otp = h[1] /\ h[1] # h[2]) =>
                 /\ Refused(p, 401, "InvalidOrExpiredOtp")
                 /\ users' = users]_vars

\* The first reset token was refused while the second one is outstanding.
C11_Witness ==
  /\ proc["h1"].op = "resetPassword" /\ proc["h1"].pc = "done"
  /\ proc["h1"].tok = 1
  /\ proc["h1"].resp = Resp(400, "InvalidOrExpiredToken")
  /\ nextTok = 3
  /\ users[1].resetPasswordToken = Sha256(ClearToken(2))
  /\ users[1].resetPasswordExpire > now
  /\ hist.otp[1][1] # "" /\ hist.otp[1][1] # hist.otp[1][2]

\* The account the request of p is made for, as protect resolved it.
Caller(p) == proc[p].arg.user
\* p takes the step of the handler that follows its first lookup.
Handles(p, op) == At(p, op, "handler") /\ Steps(p)

\* C12: role containment.  A createUser or updateUser request of an admin
\* that asks for role superadmin is never carried out: it is answered 403
\* once the account to create is new (the target to update exists), and the
\* store is unchanged.  The same request of a superadmin goes through and
\* stores role superadmin; an admin's request for role user or admin goes
\* through as well (for a target that is not a superadmin).
C12_RoleContainment ==
  [][\A p \in Procs :
       LET b == proc[p].arg.body
           fresh == ByEmailOrUsername(b.email, b.username) = {}
       IN
       /\ (Handles(p, "createUser") /\ b.role = "superadmin") =>
            IF Caller(p).role = "admin"
            THEN /\ users' = users /\ proc'[p].pc = "done"
                 /\ fresh => Refused(p, 403, "NoPermissionToCreateRole")
            ELSE fresh => /\ proc'[p].pc = "create"
                          /\ proc'[p].doc.cur.role = "superadmin"
       /\ (Handles(p, "updateUser") /\ b.role = "superadmin") =>
            IF Caller(p).role = "admin"
            THEN /\ users' = users /\ proc'[p].pc = "done"
                 /\ b.id \in DOMAIN users => proc'[p].resp.status = 403
            ELSE b.id \in DOMAIN users =>
                   /\ proc'[p].pc = "save"
                   /\ proc'[p].doc.cur.role = "superadmin"
       /\ (Handles(p, "createUser") /\ b.role \in {"user", "admin"}) =>
            (fresh => /\ proc'[p].pc = "create"
                      /\ proc'[p].doc.cur.role = b.role)
       /\ (Handles(p, "updateUser") /\ b.role \in {"user", "admin"}) =>
            ((b.id \in DOMAIN users /\ users[b.id].role # "superadmin") =>
               /\ proc'[p].pc = "save"
               /\ proc'[p].doc.cur.role = b.role)
       /\ (At(p, "createUser", "create") /\ Steps(p)
             /\ proc'[p].resp.status = 201) =>
            /\ nextId \notin DOMAIN users
            /\ users'[nextId].role = proc[p].doc.cur.role
       /\ (At(p, "updateUser", "save") /\ Steps(p)) =>
            /\ proc'[p].resp.status = 200
            /\ users'[proc[p].doc.id].role = proc[p].doc.cur.role]_vars

\* An admin asked createUser for role superadmin and was answered 403.
C12_Witness ==
  /\ proc["h1"].op = "createUser" /\ proc["h1"].pc = "done"
  /\ proc["h1"].resp = Resp(403, "NoPermissionToCreateRole")
  /\ proc["h1"].note = "superadmin"
  /\ \E i \in DOMAIN users : users[i].role = "admin"

\* C13: no privilege escalation.  In every step after which an account has
\* role superadmin that it did not have before (a new account or a changed
\* one), the request taking the step is a createUser or updateUser whose
\* caller has role superadmin in the store at that moment; and a request that
\* changes the role of its own caller stores a role that the caller's role
\* before the step may assign.
C13_NoEscalation ==
  [][\A i \in Ids :
       /\ (/\ i \in DOMAIN users'
           /\ users'[i].role = "superadmin"
           /\ (i \in DOMAIN users => users[i].role # "superadmin")) =>
            \E p \in Procs :
              /\ Steps(p)
              /\ proc[p].op \in {"createUser", "updateUser"}
              /\ Caller(p).id \in DOMAIN users
              /\ users[Caller(p).id].role = "superadmin"
       /\ (/\ i \in DOMAIN users /\ i \in DOMAIN users'
           /\ users'[i].role # users[i].role
           /\ \E p \in Procs : Steps(p) /\ proc[p].op \in AdminOps
                                /\ Caller(p).id = i) =>
            validateRoleAssignment(users[i].role, users'[i].role)]_vars

\* A superadmin made an account a superadmin.
C13_Witness ==
  /\ proc["h1"].op \in {"createUser", "updateUser"}
  /\ proc["h1"].pc = "done"
  /\ proc["h1"].resp.status \in {200, 201}
  /\ proc["h1"].note = "superadmin"
  /\ proc["h1"].resp.userId \in DOMAIN users
  /\ users[proc["h1"].resp.userId].role = "superadmin"
  /\ Cardinality({i \in DOMAIN users : users[i].role = "superadmin"}) = 2

\* C14: superadmin protection.  When getUser, updateUser, deleteUser or
\* resetUserPassword finds that its target has role superadmin and the
\* caller's role is not superadmin, it answers 403 and the store, the target
\* included, is unchanged.
C14_SuperadminProtected ==
  [][\A p \in Procs :
       \A op \in {"getUser", "updateUser", "deleteUser",
                  "resetUserPassword"} :
         (/\ Handles(p, op)
          /\ proc[p].arg.body.id \in DOMAIN users
          /\ users[proc[p].arg.body.id].role = "superadmin"
          /\ Caller(p).role # "superadmin") =>
           /\ proc'[p].pc = "done"
           /\ proc'[p].resp.status = 403
           /\ users' = users]_vars

\* An admin asked for the password of a superadmin to be reset and was
\* answered 403; the superadmin is still there.
C14_Witness ==
  /\ proc["h1"].op = "resetUserPassword" /\ proc["h1"].pc = "done"
  /\ proc["h1"].resp = Resp(403, "NotAuthorizedToResetPassword")
  /\ \E i \in DOMAIN users : users[i].role = "superadmin"

\* C15 as stated: a deleteUser whose target is its caller is answered 400
\* "cannot delete your own account" and deletes nothing, whatever the role
\* of the caller.
C15_SelfDeleteAlways400 ==
  [][\A p \in Procs :
       (Handles(p, "deleteUser") /\ proc[p].arg.body.id = Caller(p).id) =>
         /\ Refused(p, 400, "CannotDeleteOwnAccount")
         /\ users' = users]_vars

\* C15: a deleteUser whose target is its caller deletes nothing.  A
\* superadmin is answered 400 "cannot delete your own account"; an admin is
\* answered 403 by the permission check that comes first.
C15_SelfDeleteRefused ==
  [][\A p \in Procs :
       (Handles(p, "deleteUser") /\ proc[p].arg.body.id = Caller(p).id) =>
         /\ users' = users
         /\ proc'[p].pc = "done"
         /\ Caller(p).role = "superadmin" =>
              Refused(p, 400, "CannotDeleteOwnAccount")
         /\ Caller(p).role = "admin" =>
              proc'[p].resp = Resp(403, "NotAuthorizedToDeleteUser")]_vars

\* An admin asked for its own account to be deleted and was answered 403.
C15_Witness ==
  /\ proc["h1"].op = "deleteUser" /\ proc["h1"].pc = "done"
  /\ proc["h1"].resp = Resp(403, "NotAuthorizedToDeleteUser")
  /\ proc["h1"].note = "self"

\* C16: the authorization gate.  A request is in flight on a protected route
\* only with a signed token (no token and a token that does not verify were
\* answered 401); a handler of the admin routes runs only for a caller
\* whose account had role admin or superadmin when protect resolved it; and
\* protect answers the request of an existing, active account of another
\* role 403.
C16_AuthorizationGate ==
  [][\A p \in Procs :
       /\ (proc'[p].op \in ProtectedOps /\ proc'[p].pc # "done") =>
            proc'[p].arg.token \in hist.sessions
       /\ (proc'[p].op \in AdminOps
             /\ proc'[p].pc \notin {"done", "protect"}) =>
            proc'[p].arg.user.role \in {"admin", "superadmin"}
       /\ (proc[p].op \in AdminOps /\ proc[p].pc = "protect" /\ Steps(p)) =>
            LET id == proc[p].arg.token.id IN
            /\ proc'[p].pc = "handler" =>
                 /\ id \in DOMAIN users
                 /\ users[id].role \in {"admin", "superadmin"}
                 /\ proc'[p].arg.user = [id |-> id, role |-> users[id].role]
            /\ (/\ id \in DOMAIN users /\ users[id].isActive
                /\ users[id].role \notin {"admin", "superadmin"}) =>
                 Refused(p, 403, "RoleNotAuthorized")
       /\ (Free(p) /\ Steps(p) /\ proc'[p].op \in ProtectedOps
             /\ proc'[p].pc = "done") =>
            /\ proc'[p].resp.status = 401
            /\ users' = users]_vars

\* An account of role user asked for an admin route and was answered 403.
C16_Witness ==
  /\ proc["h1"].op \in AdminOps /\ proc["h1"].pc = "done"
  /\ proc["h1"].resp = Resp(403, "RoleNotAuthorized")
  /\ \E i \in DOMAIN users : users[i].role = "user"

\* The account a presented token is for is gone, or is there and inactive.
Gone(p) == proc[p].arg.token.id \notin DOMAIN users
Inactive(p) == ~Gone(p) /\ ~users[proc[p].arg.token.id].isActive
\* p takes a step of protect, or of refresh, after the token was verified.
Protects(p) == proc[p].pc = "protect" /\ Steps(p)
Refreshes(p) ==
  proc[p].op = "refreshToken" /\ proc[p].pc \in {"verify", "find"} /\ Steps(p)
\* A refresh that succeeds signs a new pair of tokens for the account.
RefreshMints ==
  \A p \in Procs :
    (At(p, "refreshToken", "find") /\ Steps(p) /\ ~Gone(p) /\ ~Inactive(p)) =>
      /\ proc'[p].resp = RespSession("TokenRefreshed", proc[p].arg.token.id)
      /\ Session(proc[p].arg.token.id, now) \in hist'.sessions
      /\ users' = users

\* C17 as stated: protect and refresh both answer 401 when the account of a
\* verified token no longer exists and 403 AccountNotActive when it is
\* inactive, and a refresh that succeeds returns newly signed tokens.
C17_LiveActiveAccount ==
  [][/\ \A p \in Procs :
          (Protects(p) \/ Refreshes(p)) =>
            /\ Gone(p) => (proc'[p].pc = "done" /\ proc'[p].resp.status = 401)
            /\ Inactive(p) => Refused(p, 403, "AccountNotActive")
     /\ RefreshMints]_vars

\* C17: refresh answers 401 when the account of a verified token no longer
\* exists and 403 AccountNotActive when it is inactive; protect does the
\* same, except that with NODE_ENV = test it lets an inactive account
\* through.  A refresh that succeeds returns newly signed tokens.
C17_LiveActiveAccountUnlessTest ==
  [][/\ \A p \in Procs :
          /\ ((Protects(p) \/ Refreshes(p)) /\ Gone(p)) =>
               (proc'[p].pc = "done" /\ proc'[p].resp.status = 401)
          /\ (Refreshes(p) /\ Inactive(p)) =>
               Refused(p, 403, "AccountNotActive")
          /\ (Protects(p) /\ Inactive(p)) =>
               IF nodeEnv = "test"
               THEN proc'[p].resp.status \notin {401, 403}
               ELSE Refused(p, 403, "AccountNotActive")
     /\ RefreshMints]_vars

\* With NODE_ENV = test, a refresh for an inactive account was answered 403.
C17_Witness ==
  /\ nodeEnv = "test"
  /\ proc["h1"].op = "refreshToken" /\ proc["h1"].pc = "done"
  /\ proc["h1"].resp = Resp(403, "AccountNotActive")
  /\ ~users[1].isActive

\* C18: tokens are stateless.  No step of refresh or logout changes an
\* account or takes a signed token away, and a token that a successful
\* refresh or logout has already seen is accepted again: refresh goes
\* through with it while it is unexpired and its account is there and
\* active, and so does protect.
C18_Stateless ==
  [][\A p \in Procs :
       LET t == proc[p].arg.token
           seen == t \in hist.retired /\ ~Gone(p) /\ users[t.id].isActive
       IN
       /\ (Refreshes(p) \/ (Protects(p) /\ proc[p].op = "logout")) =>
            /\ users' = users
            /\ hist.sessions \subseteq hist'.sessions
       /\ (At(p, "refreshToken", "verify") /\ Steps(p) /\ seen
             /\ t.iat + RefreshExpire > now) => proc'[p].pc = "find"
       /\ (At(p, "refreshToken", "find") /\ Steps(p) /\ seen) =>
            proc'[p].resp = RespSession("TokenRefreshed", t.id)
       /\ (Protects(p) /\ proc[p].op = "logout" /\ seen) =>
            proc'[p].resp.status = 200]_vars

\* A refresh succeeded with a token that an earlier refresh or logout had
\* seen, after time had passed.
C18_Witness ==
  /\ proc["h1"].op = "refreshToken" /\ proc["h1"].pc = "done"
  /\ proc["h1"].resp.status = 200
  /\ proc["h1"].note = "retired"
  /\ now > 0

\* p answers a login that names no account, or an account with another
\* password than the stored one.
WrongLogin(p) ==
  /\ proc[p].op = "login" /\ proc[p].pc \in {"find", "incSave"}
  /\ LET found == ByEmail(proc[p].arg.email) IN
     \/ found = {}
     \/ ~BcryptCompare(proc[p].arg.password, users[FirstOf(found)].password)
LockedTarget(p) ==
  \E i \in ByEmail(proc[p].arg.email) : i = FirstOf(ByEmail(proc[p].arg.email))
                                            /\ Locked(i)

\* C19 as stated: a login for an email with no account and a login with a
\* wrong password for an existing account get the same answer, 401
\* "Invalid credentials", in every state of the account.
C19_SameAnswer ==
  [][\A p \in Procs :
       (WrongLogin(p) /\ Answers(p, "login")) =>
         proc'[p].resp = Resp(401, "InvalidCredentials")]_vars

\* C19: a login for an email with no account and a login with a wrong
\* password for an existing account that is not locked get the same answer,
\* 401 "Invalid credentials"; while the account is locked the answer is 401
\* AccountLocked with the unlock instant.
C19_SameAnswerUnlessLocked ==
  [][\A p \in Procs :
       (WrongLogin(p) /\ Answers(p, "login")) =>
         IF LockedTarget(p)
         THEN /\ proc'[p].resp.status = 401
              /\ proc'[p].resp.message = "AccountLocked"
         ELSE proc'[p].resp = Resp(401, "InvalidCredentials")]_vars

\* A login with a wrong password for a locked account was answered
\* AccountLocked.
C19_Witness ==
  /\ proc["h1"].op = "login" /\ proc["h1"].pc = "done"
  /\ proc["h1"].resp.message = "AccountLocked"
  /\ proc["h1"].note = "lockedWrongPassword"
  /\ users[1].failedLoginAttempts >= MaxLoginAttempts

\* C20: verify-otp goes on to its save iff the submitted code is the stored
\* one and the time is before the stored expiry, which is 10 minutes after
\* the code was generated; otherwise it answers InvalidOrExpiredOtp (404 for
\* an id of no account) and the store is unchanged.  The save empties the
\* slot and sets otpVerified, nothing else, and the answer carries tokens;
\* with the slot empty no code is accepted.
C20_VerifyOtp ==
  [][\A p \in Procs :
       /\ (At(p, "verifyOtp", "find") /\ Steps(p)) =>
            LET id == proc[p].arg.userId
                match == /\ users[id].otp.code = proc[p].arg.otp
                         /\ now < users[id].otp.expiresAt
            IN  IF id \notin DOMAIN users
                THEN Refused(p, 404, "UserNotFound") /\ users' = users
                ELSE /\ match <=> proc'[p].pc = "save"
                     /\ users' = users
                     /\ ~match => Refused(p, 401, "InvalidOrExpiredOtp")
                     /\ users[id].otp = NoOtp => ~match
       /\ (At(p, "verifyOtp", "save") /\ Steps(p)) =>
            LET id == proc[p].arg.userId IN
            /\ users' = [users EXCEPT ![id].otp = NoOtp,
                                      ![id].otpVerified = TRUE]
            /\ proc'[p].resp = RespSession("OtpVerified", id)
            /\ proc'[p].resp.session # NoSession
       /\ (At(p, "login", "resetSave") /\ proc'[p].pc = "otpSave") =>
            proc'[p].doc.cur.otp.expiresAt = now + 10]_vars

\* A code was verified, and a later verify-otp request for the account was
\* answered InvalidOrExpiredOtp with the slot empty.
C20_Witness ==
  /\ proc["h1"].op = "verifyOtp" /\ proc["h1"].pc = "done"
  /\ proc["h1"].resp = Resp(401, "InvalidOrExpiredOtp")
  /\ users[1].otp = NoOtp /\ users[1].otpVerified

\* C21 as stated: with REQUIRE_OTP set, no login is answered with tokens.
C21_OtpLoginNeverTokens ==
  [][\A p \in Procs :
       (requireOtp /\ Answers(p, "login")) =>
         proc'[p].resp.session = NoSession]_vars

\* C21: with REQUIRE_OTP set and NODE_ENV other than test, a login whose
\* password was right gets no tokens: after the save of the reset counter
\* it generates a code that expires 10 minutes later, stores it, and
\* answers 200 OtpSent with the account id and no tokens.  The only answer
\* that carries tokens is that of a verify-otp request that presented the
\* code a login stored last.  With NODE_ENV = test the login is answered
\* with the tokens at once.
C21_OtpLoginUnlessTest ==
  [][\A p \in Procs :
       /\ (At(p, "login", "resetSave") /\ Steps(p)) =>
            IF requireOtp /\ nodeEnv # "test"
            THEN /\ proc'[p].pc = "otpSave"
                 /\ proc'[p].doc.cur.otp.code \in OtpStrings
                 /\ proc'[p].doc.cur.otp.expiresAt = now + 10
                 /\ users'[proc[p].doc.id].otp = users[proc[p].doc.id].otp
            ELSE proc'[p].resp = RespSession("LoggedIn", proc[p].doc.id)
       /\ (At(p, "login", "otpSave") /\ Steps(p)) =>
            /\ proc'[p].pc = "otpEmail"
            /\ users'[proc[p].doc.id].otp = proc[p].doc.cur.otp
            /\ hist'.otp[proc[p].doc.id][2] = proc[p].doc.cur.otp.code
       /\ (At(p, "login", "otpEmail") /\ Steps(p)) =>
            /\ proc'[p].pc = "done"
            /\ proc'[p].resp.status = 200
            /\ proc'[p].resp.message = "OtpSent"
            /\ proc'[p].resp.userId = proc[p].doc.id
            /\ proc'[p].resp.session = NoSession
       /\ (/\ requireOtp /\ nodeEnv # "test"
           /\ proc[p].pc # "done" /\ proc'[p].pc = "done"
           /\ proc'[p].resp.session # NoSession) =>
            /\ At(p, "verifyOtp", "save")
            /\ proc[p].arg.issued.code = hist.otp[proc[p].arg.userId][2]
            /\ hist.otp[proc[p].arg.userId][2] # ""]_vars

\* In production a login with the right password was answered OtpSent with
\* the account id and no tokens, and the code is stored.
C21_Witness ==
  /\ requireOtp /\ nodeEnv = "production"
  /\ proc["h1"].op = "login" /\ proc["h1"].pc = "done"
  /\ proc["h1"].resp =
       [Resp(200, "OtpSent") EXCEPT !.userId = 1]
  /\ users[1].otp # NoOtp
  /\ users[1].otp.expiresAt > now
  /\ users[1].lastLogin # NoDate

\* C22: the page getUsers answers to a caller whose role is not superadmin
\* holds no account of role superadmin, whatever search, role and isActive
\* the query carries and whatever the page.
C22_NoSuperadminListed ==
  [][\A p \in Procs :
       (At(p, "getUsers", "find") /\ Steps(p)
          /\ proc[p].arg.user.role # "superadmin") =>
         /\ proc'[p].pc = "done" /\ proc'[p].resp.status = 200
         /\ \A k \in DOMAIN proc'[p].resp.list :
              /\ proc'[p].resp.list[k] \in DOMAIN users
              /\ users[proc'[p].resp.list[k]].role # "superadmin"]_vars

\* An admin was answered a page with an account on it while the store holds
\* a superadmin.
C22_Witness ==
  /\ proc["h1"].op = "getUsers" /\ proc["h1"].pc = "done"
  /\ proc["h1"].note = "admin"
  /\ proc["h1"].resp.status = 200
  /\ proc["h1"].resp.list # <<>>
  /\ \E i \in DOMAIN users : users[i].role = "superadmin"

\* The request of p would give an account a username or an email that
\* another account has.
Duplicates(p) ==
  LET d == proc[p].doc IN
  \E i \in DOMAIN users \ {d.id} :
    \/ "username" \in d.mod \cup {f \in {"username"} : d.id = 0}
         /\ users[i].username = d.cur.username
    \/ "email" \in d.mod \cup {f \in {"email"} : d.id = 0}
         /\ users[i].email = d.cur.email

\* C23: whatever register, createUser and updateUser requests are handled,
\* overlapping or not, no two accounts have the same email and no two the
\* same username; a create or save that would give an account the username
\* or email of another one is answered 400 and leaves the store unchanged,
\* and so is a request whose lookup finds the username or email taken.
C23_IdentityUnique ==
  /\ [](\A i, j \in DOMAIN users :
          i # j => /\ users[i].email # users[j].email
                   /\ users[i].username # users[j].username)
  /\ [][\A p \in Procs :
         /\ (/\ \/ At(p, "register", "create")
                 \/ At(p, "createUser", "create")
                 \/ At(p, "updateUser", "save")
             /\ Steps(p) /\ Duplicates(p)) =>
              /\ proc'[p].pc = "done" /\ proc'[p].resp.status = 400
              /\ users' = users
         /\ (/\ At(p, "register", "find") /\ Steps(p)
             /\ ByEmailOrUsername(proc[p].arg.email, proc[p].arg.username)
                  # {}) =>
              /\ proc'[p].pc = "done" /\ proc'[p].resp.status = 400
              /\ users' = users
         /\ (/\ At(p, "createUser", "handler") /\ Steps(p)
             /\ ByEmailOrUsername(proc[p].arg.body.email,
                                   proc[p].arg.body.username) # {}) =>
              /\ proc'[p].pc = "done" /\ proc'[p].resp.status = 400
              /\ users' = users]_vars

\* A request was answered 400 by the unique index: its lookup had found the
\* name free, and another request took it before the write.
C23_Witness ==
  /\ overlapped
  /\ Cardinality(DOMAIN users) = 2
  /\ \E p \in Procs :
       /\ proc[p].pc = "done"
       /\ proc[p].resp = Resp(400, "DuplicateKey")

\* C24: an activate request goes on to activate, and a reset-password
\* request to set the password, iff the SHA-256 digest of the presented
\* token is the stored digest of some account and the time of the request
\* is strictly before the expiry of that slot, which is 24 h after the
\* token was issued for activation and 1 h for reset; every other request
\* gets one and the same answer, 400 InvalidOrExpiredToken, whether the
\* token is wrong or expired, and no lookup changes an account.
C24_TokenValidity ==
  /\ [](\A i \in DOMAIN users :
          /\ users[i].activationExpire \in {NoDate, 24 * 60}
          /\ users[i].resetPasswordExpire \in {NoDate, 60})
  /\ [][\A p \in Procs :
         /\ (At(p, "activate", "find") /\ Steps(p)) =>
              LET a == proc[p].arg
                  match == \E i \in DOMAIN users :
                             /\ users[i].activationToken = Sha256(a.token)
                             /\ a.at < users[i].activationExpire
              IN  /\ match <=> proc'[p].pc = "save"
                  /\ ~match => Refused(p, 400, "InvalidOrExpiredToken")
                  /\ users' = users
         /\ (At(p, "resetPassword", "find") /\ Steps(p)) =>
              LET a == proc[p].arg
                  match == \E i \in DOMAIN users :
                             /\ users[i].resetPasswordToken = Sha256(a.token)
                             /\ a.at < users[i].resetPasswordExpire
              IN  /\ match <=> proc'[p].pc = "save"
                  /\ ~match => Refused(p, 400, "InvalidOrExpiredToken")
                  /\ users' = users
         /\ (/\ At(p, "activate", "save") \/ At(p, "resetPassword", "save")
             /\ Steps(p)) =>
              proc'[p].pc \in {"done", "notify"}]_vars

\* The token of the account was presented at its expiry and refused, and a
\* token that was never issued got the same answer.
C24_Witness ==
  /\ proc["h1"].pc = "done" /\ proc["h1"].tok = 1
  /\ proc["h1"].resp = Resp(400, "InvalidOrExpiredToken")
  /\ proc["h2"].pc = "done" /\ proc["h2"].tok = 0
  /\ proc["h2"].resp = proc["h1"].resp
  /\ proc["h1"].op = proc["h2"].op
  /\ \/ /\ proc["h1"].op = "activate"
        /\ users[1].activationToken = Sha256(ClearToken(1))
        /\ now >= users[1].activationExpire
     \/ /\ proc["h1"].op = "resetPassword"
        /\ users[1].resetPasswordToken = Sha256(ClearToken(1))
        /\ now >= users[1].resetPasswordExpire

\* What updateUser with isActive does and what it means for login, protect
\* and refresh, where bypass says that login and protect let an inactive
\* account through.
ActiveRule(bypass) ==
  \A p \in Procs :
    /\ (/\ At(p, "updateUser", "save") /\ Steps(p)
        /\ proc[p].arg.body.isActive # {}) =>
         /\ users'[proc[p].doc.id].isActive
              = (proc[p].arg.body.isActive = {TRUE})
         /\ proc'[p].resp.status = 200
    /\ (/\ At(p, "login", "find") /\ Steps(p)
        /\ ByEmail(proc[p].arg.email) # {}) =>
         LET i == FirstOf(ByEmail(proc[p].arg.email)) IN
         (/\ ~Locked(i)
          /\ BcryptCompare(proc[p].arg.password, users[i].password)) =>
           IF ~users[i].isActive /\ ~bypass
           THEN Refused(p, 403, "AccountNotActive") /\ users' = users
           ELSE proc'[p].pc = "resetSave"
    /\ (At(p, "login", "resetSave") /\ Steps(p)) =>
         proc'[p].resp = RespSession("LoggedIn", proc[p].doc.id)
    /\ (Protects(p) /\ ~Gone(p)) =>
         IF Inactive(p) /\ ~bypass
         THEN Refused(p, 403, "AccountNotActive")
         ELSE /\ proc'[p].resp.status # 401
              /\ proc'[p].resp.message # "AccountNotActive"
    /\ (Refreshes(p) /\ ~Gone(p)) =>
         IF Inactive(p) THEN Refused(p, 403, "AccountNotActive")
         ELSE IF proc[p].pc = "verify" THEN proc'[p].pc = "find"
         ELSE proc'[p].resp
                = RespSession("TokenRefreshed", proc[p].arg.token.id)

Assisted(i) == Redeemed(AssistKey(i)) >= 1

\* What the save of resetUserPassword does, and what the token that was
\* outstanding gets afterwards: the stored password is the hash of the
\* temporary one, which the body supplied or the handler generated, and of
\* no other; the reset slot is empty; the answer is 200; a reset-password
\* request with a token issued before is answered InvalidOrExpiredToken.
AssistTakesEffect ==
  \A p \in Procs :
    /\ (At(p, "resetUserPassword", "save") /\ Steps(p)) =>
         LET id == proc[p].doc.id
             given == proc[p].arg.body.password
             temp == IF given = "" THEN "generated" ELSE given
         IN  /\ BcryptCompare(temp, users'[id].password)
             /\ \A pw \in (Passwords \cup {"generated"}) \ {temp} :
                  ~BcryptCompare(pw, users'[id].password)
             /\ users'[id].resetPasswordToken = NoToken
             /\ users'[id].resetPasswordExpire = NoDate
             /\ proc'[p].pc = "done" /\ proc'[p].resp.status = 200
             /\ AssistKey(id) \in DOMAIN consumed'
    /\ (/\ At(p, "resetPassword", "find") /\ Steps(p)
        /\ \A i \in DOMAIN users : Assisted(i)) =>
         /\ Refused(p, 400, "InvalidOrExpiredToken")
         /\ users' = users

\* A login on an active account whose password an admin has set, past the
\* lock check when unlocked says so: with the stored password it passes the
\* password step and is answered with tokens; with another password, the
\* previous one included, it is on its way to InvalidCredentials.
LoginAfterAssist(unlocked) ==
  \A p \in Procs :
    /\ (At(p, "login", "find") /\ Steps(p)) =>
         \A i \in LoginTarget(p) :
           (Assisted(i) /\ users[i].isActive /\ (unlocked => ~Locked(i))) =>
             IF BcryptCompare(proc[p].arg.password, users[i].password)
             THEN proc'[p].pc = "resetSave"
             ELSE proc'[p].pc = "incSave"
    /\ (At(p, "login", "incSave") /\ Steps(p)) =>
         proc'[p].resp = Resp(401, "InvalidCredentials")
    /\ (At(p, "login", "resetSave") /\ Steps(p)) =>
         proc'[p].resp = RespSession("LoggedIn", proc[p].doc.id)

\* C26 as stated: after resetUserPassword has succeeded, a login with the
\* temporary password succeeds for an active target, the previous password
\* no longer authenticates, and the reset slot is empty, so that the token
\* outstanding before is refused.
C26_AssistThenLogin ==
  [][AssistTakesEffect /\ LoginAfterAssist(FALSE)]_vars

\* C26: the same, the statements about login holding for logins made while
\* the account is not locked.
C26_AssistThenLoginUnlessLocked ==
  [][AssistTakesEffect /\ LoginAfterAssist(TRUE)]_vars

\* An admin has set the password of bob to the second password, and a
\* login with it was answered with tokens.
C26_Witness ==
  /\ Assisted(2) /\ ~WasReset(2)
  /\ users[2].password = Bcrypt("secret2")
  /\ users[2].resetPasswordToken = NoToken
  /\ proc["h1"].op = "login" /\ proc["h1"].pc = "done"
  /\ proc["h1"].resp = RespSession("LoggedIn", 2)

\* C27: whatever the interleaving of login requests with a wrong password
\* on an account, the stored failedLoginAttempts is at most the number of
\* password comparisons that failed since the counter was last 0 by a
\* reset; and when no request was taken up while another one was being
\* handled and none is in flight, it is that number.
C27_CounterAtMostFailures ==
  \A i \in DOMAIN users :
    /\ users[i].failedLoginAttempts <= wrong[i]
    /\ (~overlapped /\ \A p \in Procs : Free(p)) =>
         users[i].failedLoginAttempts = wrong[i]

\* Two overlapping requests failed and the counter is 1: an update was
\* lost.
C27_Witness ==
  /\ overlapped
  /\ \A p \in Procs :
       proc[p].pc = "done" /\ proc[p].resp = Resp(401, "InvalidCredentials")
  /\ wrong[1] = 2
  /\ users[1].failedLoginAttempts = 1

\* C29 as stated: in every execution, overlapping login requests included,
\* at most 5 password comparisons fail on an account whose counter started
\* at 0 before lockedUntil is set.
C29_AtMostFiveGuesses ==
  \A i \in DOMAIN users :
    users[i].lockedUntil = NoDate => wrong[i] <= MaxLoginAttempts

\* bob, account 2 of the store at the start, is no longer in the store.
BobDeleted == 2 \notin DOMAIN users

\* C28: the delete step of deleteUser removes the account from the store
\* and answers 200, and an id that is gone stays gone.  From then on a
\* login with the email of the account (which no account has) is answered
\* InvalidCredentials; protect and refresh answer 401 to its tokens;
\* verify-otp for its id is answered 404 UserNotFound; and activate and
\* reset-password with the token it held are answered
\* InvalidOrExpiredToken.  None of these requests changes the store.
C28_DeletedIsTerminal ==
  [][/\ \A p \in Procs :
          (At(p, "deleteUser", "delete") /\ Steps(p)) =>
            /\ proc[p].doc.id \notin DOMAIN users'
            /\ proc'[p].pc = "done" /\ proc'[p].resp.status = 200
     /\ \A i \in Ids : (i < nextId /\ i \notin DOMAIN users) =>
                         i \notin DOMAIN users'
     /\ BobDeleted =>
          \A p \in Procs :
            /\ (/\ At(p, "login", "find") /\ Steps(p)
                /\ proc[p].arg.email = "b@x.com") =>
                 /\ Refused(p, 401, "InvalidCredentials")
                 /\ users' = users
            /\ ((Protects(p) \/ Refreshes(p))
                  /\ proc[p].arg.token.id = 2) =>
                 /\ proc'[p].pc = "done" /\ proc'[p].resp.status = 401
                 /\ users' = users /\ hist' = hist
            /\ (/\ At(p, "verifyOtp", "find") /\ Steps(p)
                /\ proc[p].arg.userId = 2) =>
                 /\ Refused(p, 404, "UserNotFound")
                 /\ users' = users
            /\ (/\ At(p, "activate", "find") \/ At(p, "resetPassword", "find")
                /\ Steps(p) /\ proc[p].tok = 1) =>
                 /\ Refused(p, 400, "InvalidOrExpiredToken")
                 /\ users' = users]_vars

\* bob was deleted, and the refresh token he got at time 0 was answered 401.
C28_Witness ==
  /\ BobDeleted /\ 1 \in DOMAIN users
  /\ proc["h1"].op = "refreshToken" /\ proc["h1"].pc = "done"
  /\ proc["h1"].resp = Resp(401, "UserNotFoundWithThisId")

\* C30: a login for an account whose lockedUntil is in the future is
\* answered 401 AccountLocked by its first step, whatever the password: no
\* comparison is counted, no save follows, and the account is as before,
\* failedLoginAttempts, lockedUntil and lastLogin included.
C30_LockedFailsFast ==
  [][\A p \in Procs :
       (At(p, "login", "find") /\ Steps(p)) =>
         \A i \in LoginTarget(p) :
           (users[i].lockedUntil # NoDate /\ users[i].lockedUntil > now) =>
             /\ proc'[p].pc = "done"
             /\ proc'[p].resp = [Resp(401, "AccountLocked") EXCEPT
                                   !.userId = i]
             /\ proc'[p].note \in {"lockedCorrectPassword",
                                    "lockedWrongPassword"}
             /\ wrong' = wrong
             /\ users' = users
             /\ users'[i].failedLoginAttempts = users[i].failedLoginAttempts
             /\ users'[i].lockedUntil = users[i].lockedUntil
             /\ users'[i].lastLogin = users[i].lastLogin]_vars

\* A login with the right password was answered AccountLocked while the
\* lock set by the fifth failure is in force; the counter is 5 and the
\* account has still never logged in.
C30_Witness ==
  /\ proc["h1"].op = "login" /\ proc["h1"].pc = "done"
  /\ proc["h1"].note = "lockedCorrectPassword"
  /\ proc["h1"].resp = [Resp(401, "AccountLocked") EXCEPT !.userId = 1]
  /\ users[1].lockedUntil # NoDate /\ users[1].lockedUntil > now
  /\ users[1].failedLoginAttempts = MaxLoginAttempts
  /\ users[1].lastLogin = NoDate
  /\ wrong[1] = MaxLoginAttempts

\* C31: the counter outlives the lock.  An account that has a lock on record,
\* in force or run out, has a counter of 5 or more; a wrong-password attempt
\* on an account whose lock has run out finds that counter, raises it by one
\* and puts a new lock 15 min ahead on the document, and its save stores
\* that counter and that lock: one failure locks the account again.
C31_CounterOutlivesLock ==
  /\ [](\A i \in DOMAIN users :
          users[i].lockedUntil # NoDate =>
            users[i].failedLoginAttempts >= MaxLoginAttempts)
  /\ [][\A p \in Procs :
        /\ (/\ At(p, "login", "find") /\ Steps(p)
            /\ \E i \in LoginTarget(p) :
                 /\ users[i].lockedUntil # NoDate /\ ~Locked(i)
                 /\ ~BcryptCompare(proc[p].arg.password, users[i].password)) =>
               LET i == FirstOf(LoginTarget(p)) IN
                 /\ proc'[p].pc = "incSave"
                 /\ proc'[p].doc.cur.failedLoginAttempts
                      = users[i].failedLoginAttempts + 1
                 /\ proc'[p].doc.cur.failedLoginAttempts > MaxLoginAttempts
                 /\ proc'[p].doc.cur.lockedUntil = now + LockDuration
        /\ (/\ At(p, "login", "incSave") /\ Steps(p)
            /\ users[proc[p].doc.id].lockedUntil # NoDate) =>
               LET id == proc[p].doc.id IN
                 /\ users'[id].failedLoginAttempts
                      = proc[p].doc.cur.failedLoginAttempts
                 /\ users'[id].lockedUntil = proc[p].doc.cur.lockedUntil
                 /\ users'[id].lockedUntil > users[id].lockedUntil]_vars

\* The account was locked at time 0, the lock ran out, and one more failure
\* has locked it again: the counter is 6.
C31_Witness ==
  /\ users[1].failedLoginAttempts = MaxLoginAttempts + 1
  /\ users[1].lockedUntil > LockDuration
  /\ Locked(1)
  /\ \E p \in Procs : proc[p].op = "login" /\ proc[p].pc = "done"
                        /\ proc[p].resp.message = "InvalidCredentials"

\* C32: createUser without a role, by a caller of role admin or superadmin,
\* for a username and an email no account has: the handler goes on to create
\* an account of role user, active and verified when the body has no
\* isActive, and the create step stores it and answers 201.
C32_CreateWithoutRole ==
  [][\A p \in Procs :
      /\ (/\ At(p, "createUser", "handler") /\ Steps(p)
          /\ proc[p].arg.user.role \in {"admin", "superadmin"}
          /\ proc[p].arg.body.role = NoRole
          /\ ByEmailOrUsername(proc[p].arg.body.email,
                               proc[p].arg.body.username) = {}) =>
             /\ proc'[p].pc = "create"
             /\ proc'[p].doc.cur.role = "user"
             /\ proc[p].arg.body.isActive = {} =>
                  /\ proc'[p].doc.cur.isActive
                  /\ proc'[p].doc.cur.emailVerified
      /\ (/\ At(p, "createUser", "create") /\ Steps(p)
          /\ proc[p].arg.body.role = NoRole
          /\ proc'[p].resp.status = 201) =>
             /\ DOMAIN users' = DOMAIN users \cup {proc'[p].resp.userId}
             /\ users'[proc'[p].resp.userId].role = "user"]_vars

\* C33: getUsers with a role in the query, by a caller of role admin or
\* superadmin, answers with a page on which every account has that role.
C33_RoleFilterHonoured ==
  [][\A p \in Procs :
      (/\ At(p, "getUsers", "find") /\ Steps(p)
       /\ proc[p].arg.user.role \in {"admin", "superadmin"}
       /\ proc[p].arg.body.role # NoRole) =>
         \A n \in DOMAIN proc'[p].resp.list :
           users[proc'[p].resp.list[n]].role = proc[p].arg.body.role]_vars

\* C34: a register request, whatever role its body carries, prepares an
\* account of role user; the create step stores that account with role user;
\* and no later step of activation or login changes the role.
C34_RegisterStoresUser ==
  /\ [](\A i \in DOMAIN users : users[i].role = "user")
  /\ [][\A p \in Procs :
        /\ (At(p, "register", "find") /\ proc'[p].pc = "create") =>
               proc'[p].doc.cur.role = "user"
        /\ (/\ At(p, "register", "create") /\ Steps(p)
            /\ DOMAIN users' # DOMAIN users) =>
               /\ DOMAIN users' = DOMAIN users \cup {nextId}
               /\ users'[nextId].role = "user"
               /\ users'[nextId].username = proc[p].arg.username]_vars

\* A request that asked for role superadmin has created its account.
C34_Witness ==
  \E p \in Procs :
    /\ proc[p].op = "register" /\ proc[p].pc = "email"
    /\ proc[p].arg.role = "superadmin"
    /\ proc[p].doc.id \in DOMAIN users
    /\ users[proc[p].doc.id].role = "user"

\* C35: every answer that carries an access and refresh token pair is for
\* an account that, in the state the answer is given in, is in the store,
\* active and not locked.
C35_TokensForUsableAccounts ==
  [][\A p \in Procs :
      (/\ Steps(p) /\ proc'[p].pc = "done"
       /\ proc'[p].resp.session # NoSession) =>
         LET id == proc'[p].resp.session IN
           /\ id \in DOMAIN users'
           /\ users'[id].isActive
           /\ ~(/\ users'[id].lockedUntil # NoDate
                /\ users'[id].lockedUntil > now')]_vars

\* C36: an account that is inactive (here: since an admin deactivated it)
\* becomes active again only by the save of an updateUser request whose
\* body has isActive true for that account.
C36_DeactivationSticky ==
  [][\A i \in DOMAIN users :
      (~users[i].isActive /\ i \in DOMAIN users' /\ users'[i].isActive) =>
        \E p \in Procs :
          /\ At(p, "updateUser", "save") /\ Steps(p)
          /\ proc[p].arg.body.id = i
          /\ proc[p].arg.body.isActive = {TRUE}]_vars

\* C37: the save of reset-password and the save of resetUserPassword leave
\* failedLoginAttempts and lockedUntil of the account as they are stored, so
\* an account that is locked before the save is locked after it; and a login
\* with the stored password, on a locked account whose password was reset
\* by either of them, is answered AccountLocked without tokens and changes
\* nothing.
C37_ResetsLeaveLock ==
  [][\A p \in Procs :
      /\ (/\ proc[p].op \in {"resetPassword", "resetUserPassword"}
          /\ proc[p].pc = "save" /\ Steps(p)) =>
             LET id == proc[p].doc.id IN
               /\ users'[id].failedLoginAttempts
                    = users[id].failedLoginAttempts
               /\ users'[id].lockedUntil = users[id].lockedUntil
               /\ Locked(id) =>
                    /\ users'[id].lockedUntil # NoDate
                    /\ users'[id].lockedUntil > now'
      /\ (/\ At(p, "login", "find") /\ Steps(p)
          /\ \E i \in LoginTarget(p) :
               /\ WasReset(i) \/ Assisted(i)
               /\ Locked(i)
               /\ BcryptCompare(proc[p].arg.password, users[i].password)) =>
             /\ proc'[p].pc = "done"
             /\ proc'[p].resp.status = 401
             /\ proc'[p].resp.message = "AccountLocked"
             /\ proc'[p].resp.session = NoSession
             /\ users' = users]_vars

\* bob was locked, then set a new password with his reset token, and a
\* login with that password was answered AccountLocked.
C37_Witness ==
  /\ WasReset(2) /\ ~Assisted(2)
  /\ Locked(2)
  /\ users[2].password = Bcrypt("secret2")
  /\ proc["h1"].op = "login" /\ proc["h1"].pc = "done"
  /\ proc["h1"].note = "lockedCorrectPassword"
  /\ proc["h1"].resp.message = "AccountLocked"

\* C38: whether a request to an admin route gets past protect and authorize
\* is decided by the role the store holds for the account of the token when
\* the request is handled.  For an account that is in the store (and active,
\* or NODE_ENV is test): with a stored role other than admin and superadmin
\* the request is answered 403 and changes nothing, whatever role the
\* account had when the token was signed; with a stored role admin or
\* superadmin it is not answered 403 and, when its body is valid, reaches
\* the handler with that role.  A change of role leaves the signed tokens
\* as they are.
C38_AuthorizationFromStore ==
  [][\A p \in Procs :
      /\ (/\ proc[p].op \in AdminOps /\ proc[p].pc = "protect" /\ Steps(p)
          /\ proc[p].arg.token.id \in DOMAIN users
          /\ users[proc[p].arg.token.id].isActive \/ nodeEnv = "test") =>
             LET id == proc[p].arg.token.id IN
               IF users[id].role \in {"admin", "superadmin"}
               THEN /\ proc'[p].resp.status # 403
                    /\ proc[p].arg.body.valid =>
                         /\ proc'[p].pc = "handler"
                         /\ proc'[p].arg.user
                              = [id |-> id, role |-> users[id].role]
               ELSE /\ proc'[p].pc = "done"
                    /\ proc'[p].resp = Resp(403, "RoleNotAuthorized")
                    /\ users' = users
      /\ (At(p, "updateUser", "save") /\ Steps(p)) => hist' = hist]_vars

\* bob, an admin when his token was signed, is a user now, and the request
\* with his token was answered 403 (alice is a superadmin throughout).
C38_Witness ==
  /\ users[1].role = "superadmin"
  /\ users[2].role = "user"
  /\ Session(2, 0) \in hist.sessions
  /\ proc["h1"].op \in AdminOps /\ proc["h1"].pc = "done"
  /\ proc["h1"].resp = Resp(403, "RoleNotAuthorized")

\* C39: a step of an updateUser request changes the store only when it is
\* the step that answers 200: the lookups and the checks assign on the
\* document of the request alone, and a request answered with an error
\* (401, 403, 404, 400) leaves every account as it was.
C39_FailedUpdatePersistsNothing ==
  [][\A p \in Procs :
      (/\ Steps(p)
       /\ proc[p].op = "updateUser" \/ proc'[p].op = "updateUser"
       /\ ~(proc'[p].pc = "done" /\ proc'[p].resp.status = 200)) =>
         users' = users]_vars

\* A request that had assigned a role on its document was answered 400:
\* another account has the username or the email it asked for.
C39_Witness ==
  \E p \in Procs :
    /\ proc[p].op = "updateUser" /\ proc[p].pc = "done"
    /\ proc[p].resp.status = 400
    /\ proc[p].resp.message \in {"UsernameTaken", "EmailRegistered"}
    /\ proc[p].note = "assigned"

\* The token of request p is the one a forgot-password request for an
\* account has emailed and answered 200 for.
Emailed(p) ==
  /\ proc[p].op = "forgotPassword" /\ proc[p].pc = "done"
  /\ proc[p].resp.status = 200 /\ proc[p].sent /\ proc[p].tok # 0

\* C40: when no request is in flight, the token a forgot-password request
\* has emailed is redeemable (some account stores its digest with an expiry
\* ahead) unless the store holds the token another request has emailed or a
\* reset-password request has redeemed it.
C40_EmailedTokenRedeemable ==
  \A p \in Procs :
    (Emailed(p) /\ \A q \in Procs : Free(q)) =>
      \/ ByResetToken(Sha256(ClearToken(proc[p].tok)), now) # {}
      \/ \E q \in Procs \ {p} :
           /\ Emailed(q)
           /\ ByResetToken(Sha256(ClearToken(proc[q].tok)), now) # {}
      \/ TokenRedeemed("reset", proc[p].tok) >= 1

====
